---------------------------- MODULE AccessControl ----------------------------
(***************************************************************************)
(* Access requests, invite codes, wallet bindings and allowlist overrides. *)
(*                                                                         *)
(* The API process and the operator's command line keep the records in     *)
(* memory and share one store.  An operation reads the records again,      *)
(* changes them in memory and saves the whole memory over the store; the   *)
(* API then saves once more with its audit entry.  The other process may   *)
(* run between any two of these steps.                                     *)
(***************************************************************************)
EXTENDS Integers, Sequences, FiniteSets

CONSTANTS
    Procs,              \* "api", "cli"
    Requests, Wallets,
    MaxWallets,         \* max_wallets of every account
    MaxAccounts, MaxSessions, MaxEntries, MaxFailures   \* bounds

AccessAssumption ==
    /\ Procs \subseteq {"api", "cli"} /\ "api" \in Procs
    /\ MaxWallets \in Nat \ {0} /\ MaxAccounts \in Nat /\ MaxSessions \in Nat
    /\ MaxEntries \in Nat /\ MaxFailures \in Nat

VARIABLES
    store,      \* the durable records
    mem,        \* process -> the records in its memory
    phase,      \* process -> "idle", "fresh" (records just read), "audit"
    minted,     \* accounts ever created; ids are random, so always new
    sessions,   \* the API's access sessions: account and bound wallet
    granted,    \* wallets whose binding was ever answered with success
    handed,     \* accounts whose invite code an operator received
    last,       \* the last operation saved
    failures

vars == <<store, mem, phase, minted, sessions, granted, handed, last, failures>>

Accounts == 1 .. MaxAccounts
Entries == 1 .. MaxEntries
Absent == [status |-> "none", code |-> "none", bound |-> {}]
Unbound == [account |-> 0, status |-> "none"]
NoOp == [op |-> "none", on |-> "none", account |-> 0]

Init ==
    /\ store = [req  |-> [r \in Requests |-> "none"],
                acct |-> [a \in Accounts |-> Absent],
                bind |-> [w \in Wallets |-> Unbound],
                over |-> [w \in Wallets |-> "none"],
                allow |-> <<>>]
    /\ mem = [p \in Procs |-> store]
    /\ phase = [p \in Procs |-> "idle"]
    /\ minted = 0
    /\ sessions = <<>>
    /\ granted = {} /\ handed = {}
    /\ last = NoOp
    /\ failures = 0

-----------------------------------------------------------------------------
(* Reading and saving *)

\* The command line builds its facade; the API rereads the access records
\* before an operation or a decision.
refresh_access_control_state_from_storage(p) ==
    /\ phase[p] = "idle"
    /\ phase' = [phase EXCEPT ![p] = "fresh"]
    /\ mem' = [mem EXCEPT ![p] = store]
    /\ UNCHANGED <<store, minted, sessions, granted, handed, last, failures>>

\* A read that raises is logged, and the operation goes on with what it has.
RefreshFails ==
    /\ phase["api"] = "idle" /\ failures < MaxFailures
    /\ phase' = [phase EXCEPT !["api"] = "fresh"]
    /\ failures' = failures + 1
    /\ UNCHANGED <<store, mem, minted, sessions, granted, handed, last>>

\* The operation was refused, or only wanted to read.
Finish(p) ==
    /\ phase[p] = "fresh"
    /\ phase' = [phase EXCEPT ![p] = "idle"]
    /\ UNCHANGED <<store, mem, minted, sessions, granted, handed, last, failures>>

\* Save memory d; an audited operation of the API will save once more.
Commit(p, d, o, audited) ==
    /\ mem' = [mem EXCEPT ![p] = d]
    /\ store' = d
    /\ last' = o
    /\ phase' = [phase EXCEPT ![p] = IF audited /\ p = "api" THEN "audit" ELSE "idle"]

Operation(p, d, name, on, a, audited) ==
    /\ phase[p] = "fresh"
    /\ Commit(p, d, [op |-> name, on |-> on, account |-> a], audited)

_persist_access_admin_operation ==
    /\ phase["api"] = "audit"
    /\ Commit("api", mem["api"], [NoOp EXCEPT !.op = "audit"], FALSE)
    /\ UNCHANGED <<minted, sessions, granted, handed, failures>>

\* Any other operation of the API that saves without reading these records.
SaveOther ==
    /\ phase["api"] = "idle"
    /\ Commit("api", mem["api"], [NoOp EXCEPT !.op = "save"], FALSE)
    /\ UNCHANGED <<minted, sessions, granted, handed, failures>>

-----------------------------------------------------------------------------
(* Requests and invitations *)

\* POST /access/request, which does not read the records first.
submit_access_request(r) ==
    LET d == mem["api"]
    IN /\ phase["api"] = "idle" /\ d.req[r] = "none" /\ store.req[r] = "none"
       /\ Commit("api", [d EXCEPT !.req[r] = "pending"],
                 [NoOp EXCEPT !.op = "request", !.on = r], FALSE)
       /\ UNCHANGED <<minted, sessions, granted, handed, failures>>

_create_access_account_record(d, a) ==
    [d EXCEPT !.acct[a] = [status |-> "active", code |-> "live", bound |-> {}]]

\* Approving again returns the same account without a code.
approve_access_request(p, r) ==
    /\ mem[p].req[r] = "pending" /\ minted < MaxAccounts
    /\ minted' = minted + 1
    /\ handed' = handed \cup {minted + 1}
    /\ Operation(p, [_create_access_account_record(mem[p], minted + 1) EXCEPT !.req[r] = "approved"],
                 "approve", r, minted + 1, TRUE)
    /\ UNCHANGED <<sessions, granted, failures>>

\* A request may be rejected in any state; its account stays.
reject_access_request(p, r) ==
    /\ mem[p].req[r] # "none"
    /\ Operation(p, [mem[p] EXCEPT !.req[r] = "rejected"], "reject", r, 0, TRUE)
    /\ UNCHANGED <<minted, sessions, granted, handed, failures>>

create_access_invite(p) ==
    /\ minted < MaxAccounts
    /\ minted' = minted + 1
    /\ handed' = handed \cup {minted + 1}
    /\ Operation(p, _create_access_account_record(mem[p], minted + 1),
                 "invite", "none", minted + 1, TRUE)
    /\ UNCHANGED <<sessions, granted, failures>>

-----------------------------------------------------------------------------
(* Login and binding *)

\* Bug: a login reactivates the account.
ReactivateAtLogin(a) ==
    /\ mem["api"].acct[a].code = "live" /\ Len(sessions) < MaxSessions
    /\ sessions' = Append(sessions, [account |-> a, wallet |-> "none"])
    /\ Operation("api", [mem["api"] EXCEPT !.acct[a].status = "active"], "login", "none", a, FALSE)
    /\ UNCHANGED <<minted, granted, handed, failures>>

\* POST /access/login: a live code of an active account yields a session.
complete_access_login_operation(a) ==
    /\ mem["api"].acct[a].code = "live" /\ mem["api"].acct[a].status = "active"
    /\ Len(sessions) < MaxSessions
    /\ sessions' = Append(sessions, [account |-> a, wallet |-> "none"])
    /\ Operation("api", mem["api"], "login", "none", a, FALSE)
    /\ UNCHANGED <<minted, granted, handed, failures>>

\* Whether bind_wallet_to_access_account accepts; a known wallet of this
\* account is bound again whatever its status and the limit.
MayBind(d, a, w) ==
    /\ d.acct[a].status = "active"
    /\ \/ d.bind[w].account = a
       \/ d.bind[w] = Unbound /\ Cardinality(d.acct[a].bound) < MaxWallets

Bound(d, a, w) ==
    [d EXCEPT !.bind[w] = [account |-> a, status |-> "active"],
              !.acct[a].bound = @ \cup {w},
              !.acct[a].code = "redeemed"]

\* POST /access/bind-wallet: the records change in memory, then the session is
\* marked, which may refuse, and only then the memory is saved.
bind_access_wallet_operation(s, w) ==
    LET a == sessions[s].account
        d == Bound(mem["api"], a, w)
        free == sessions[s].wallet \in {"none", w}
    IN /\ phase["api"] = "fresh"
       /\ MayBind(mem["api"], a, w)
       /\ \/ /\ free
             /\ sessions' = [sessions EXCEPT ![s].wallet = w]
             /\ granted' = granted \cup {w}
             /\ Operation("api", d, "bind", w, a, FALSE)
          \/ /\ ~free
             /\ mem' = [mem EXCEPT !["api"] = d]
             /\ phase' = [phase EXCEPT !["api"] = "idle"]
             /\ UNCHANGED <<store, sessions, granted, last>>
       /\ UNCHANGED <<minted, handed, failures>>

\* Sessions live in the memory of the API.
RestartApi ==
    /\ failures < MaxFailures
    /\ failures' = failures + 1
    /\ sessions' = <<>>
    /\ mem' = [mem EXCEPT !["api"] = store]
    /\ phase' = [phase EXCEPT !["api"] = "idle"]
    /\ UNCHANGED <<store, minted, granted, handed, last>>

-----------------------------------------------------------------------------
(* Operators *)

update_access_account_status(p, a, s) ==
    /\ mem[p].acct[a] # Absent
    /\ p = "api" \/ s = "suspended"     \* the command line only suspends
    /\ Operation(p, [mem[p] EXCEPT !.acct[a].status = s], s, "none", a, TRUE)
    /\ UNCHANGED <<minted, sessions, granted, handed, failures>>

revoke_wallet_binding(p, w) ==
    LET a == mem[p].bind[w].account
    IN /\ mem[p].bind[w] # Unbound
       /\ Operation(p, [mem[p] EXCEPT !.bind[w].status = "revoked", !.acct[a].bound = @ \ {w}],
                    "unbind", w, a, TRUE)
       /\ UNCHANGED <<minted, sessions, granted, handed, failures>>

\* POST /eligibility/override-requests does not read the records first.
submit_override_request(w) ==
    LET d == mem["api"]
    IN /\ phase["api"] = "idle" /\ d.over[w] = "none"
       /\ Commit("api", [d EXCEPT !.over[w] = "pending"],
                 [NoOp EXCEPT !.op = "override", !.on = w], TRUE)
       /\ UNCHANGED <<minted, sessions, granted, handed, failures>>

\* Approval adds an active entry for the wallet, whatever the request's state.
approve_override_request(w) ==
    LET d == mem["api"]
    IN /\ d.over[w] # "none" /\ Len(d.allow) < MaxEntries
       /\ Operation("api", [d EXCEPT !.over[w] = "approved",
                            !.allow = Append(@, [wallet |-> w, status |-> "active"])],
                    "override", w, 0, TRUE)
       /\ UNCHANGED <<minted, sessions, granted, handed, failures>>

reject_override_request(w) ==
    LET d == mem["api"]
    IN /\ d.over[w] # "none"
       /\ Operation("api", [d EXCEPT !.over[w] = "rejected"], "override", w, 0, TRUE)
       /\ UNCHANGED <<minted, sessions, granted, handed, failures>>

\* Create an entry directly, revoke it, or set it active or inactive.
create_allowlist_entry(w) ==
    /\ Len(mem["api"].allow) < MaxEntries
    /\ Operation("api", [mem["api"] EXCEPT !.allow = Append(@, [wallet |-> w, status |-> "active"])],
                 "allow", w, 0, TRUE)
    /\ UNCHANGED <<minted, sessions, granted, handed, failures>>

update_allowlist_entry(e, s) ==
    /\ e \in DOMAIN mem["api"].allow
    /\ Operation("api", [mem["api"] EXCEPT !.allow[e].status = s], "entry", s, 0, TRUE)
    /\ UNCHANGED <<minted, sessions, granted, handed, failures>>

-----------------------------------------------------------------------------
(* Decisions *)

find_matching_allowlist_entry(d, w) ==
    \E e \in DOMAIN d.allow : d.allow[e] = [wallet |-> w, status |-> "active"]

AccountActive(d, w) == d.acct[d.bind[w].account].status = "active"

\* With access control enforced, may the wallet use a gated feature?
access_decision_for_wallet(d, w) ==
    IF d.bind[w] = Unbound THEN find_matching_allowlist_entry(d, w)
    ELSE d.bind[w].status # "revoked" /\ AccountActive(d, w)

-----------------------------------------------------------------------------
Next ==
    \/ \E p \in Procs :
          \/ refresh_access_control_state_from_storage(p) \/ Finish(p)
          \/ \E r \in Requests : approve_access_request(p, r) \/ reject_access_request(p, r)
          \/ create_access_invite(p)
          \/ \E a \in Accounts, s \in {"active", "suspended", "revoked"} :
                update_access_account_status(p, a, s)
          \/ \E w \in Wallets : revoke_wallet_binding(p, w)
    \/ RefreshFails \/ _persist_access_admin_operation \/ SaveOther \/ RestartApi
    \/ \E r \in Requests : submit_access_request(r)
    \/ \E a \in Accounts : complete_access_login_operation(a)
    \/ \E s \in DOMAIN sessions, w \in Wallets : bind_access_wallet_operation(s, w)
    \/ \E w \in Wallets :
          \/ submit_override_request(w) \/ approve_override_request(w)
          \/ reject_override_request(w) \/ create_allowlist_entry(w)
    \/ \E e \in Entries, s \in {"active", "inactive", "revoked"} : update_allowlist_entry(e, s)

Spec == Init /\ [][Next]_vars

-----------------------------------------------------------------------------
(* Properties *)

Records == [req  : [Requests -> {"none", "pending", "approved", "rejected"}],
            acct : [Accounts -> [status : {"none", "active", "suspended", "revoked"},
                                 code : {"none", "live", "redeemed"}, bound : SUBSET Wallets]],
            bind : [Wallets -> [account : 0 .. MaxAccounts,
                                status : {"none", "active", "revoked"}]],
            over : [Wallets -> {"none", "pending", "approved", "rejected"}],
            allow : Seq([wallet : Wallets, status : {"active", "inactive", "revoked"}])]

\* Types; only created accounts have records, and sessions belong to them.
TypeOK ==
    /\ store \in Records /\ \A p \in Procs : mem[p] \in Records
    /\ phase \in [Procs -> {"idle", "fresh", "audit"}]
    /\ minted \in 0 .. MaxAccounts /\ failures \in 0 .. MaxFailures
    /\ \A a \in Accounts : store.acct[a] # Absent => a <= minted
    /\ \A s \in DOMAIN sessions : sessions[s].account \in 1 .. minted
    /\ granted \subseteq Wallets /\ handed \subseteq Accounts

\* The wallets listed in an account are exactly the active bindings to it, which
\* are kept in another list.
BindingsAgree ==
    \A a \in Accounts :
        store.acct[a].bound =
            {w \in Wallets : store.bind[w] = [account |-> a, status |-> "active"]}

\* A code that has been redeemed neither comes back nor yields a session.
KeepsRedeemed ==
    \A a \in Accounts : store.acct[a].code = "redeemed" =>
       /\ store'.acct[a].code = "redeemed"
       /\ Len(sessions') > Len(sessions) => sessions'[Len(sessions')].account # a
RedeemedStaysRedeemed == [][KeepsRedeemed]_vars

\* Only an operator's reactivation ends the suspension or revocation of an account,
\* but for a save of the other process whose memory has not read it yet. A process
\* that has read it forgets it only by reading a store that lost it: what has
\* reached the store and both memories stays.
Shut(d, a) == d.acct[a].status \in {"suspended", "revoked"}
KeepsSuspensions ==
    \A a \in Accounts :
        \/ last'.op = "active" /\ last'.account = a
        \/ /\ Shut(store, a) /\ ~Shut(store', a) =>
                 \E p \in Procs : store' = mem'[p] /\ ~Shut(mem[p], a)
           /\ \A p \in Procs : Shut(mem[p], a) /\ ~Shut(mem'[p], a) => ~Shut(store, a)
SuspensionSticks == [][KeepsSuspensions]_vars

\* Only a new binding of the wallet ends the revocation of a binding, and only
\* an operator's reactivation that of an account.
\* The code does not keep this with two processes: README, section 5.
KeepsRevoked ==
    /\ \A w \in Wallets :
         (store.bind[w].status = "revoked" /\ store'.bind[w].status # "revoked")
             => last'.op = "bind" /\ last'.on = w
    /\ \A a \in Accounts :
         (store.acct[a].status \in {"suspended", "revoked"} /\ store'.acct[a].status = "active")
             => last'.op = "active" /\ last'.account = a
RevocationSticks == [][KeepsRevoked]_vars

\* Every invite code that an operator received belongs to a stored account.
HandedCodesExist == \A a \in handed : store.acct[a] # Absent

\* No override admits a wallet whose binding was revoked or whose account was
\* suspended or revoked.
RevokedIsDenied ==
    \A w \in Wallets :
        store.bind[w].status = "revoked" \/ (store.bind[w] # Unbound /\ ~AccountActive(store, w))
            => ~access_decision_for_wallet(store, w)

\* An account never holds more wallets than its limit.
\* The code does not keep this: README, section 5.
WithinWalletLimit == \A a \in Accounts : Cardinality(store.acct[a].bound) <= MaxWallets

\* A wallet whose binding was always refused has none.
\* The code does not keep this: README, section 5.
RefusedLeavesNoBinding == \A w \in Wallets : store.bind[w] # Unbound => w \in granted
=============================================================================
