--------------------------- MODULE WalletSessions ---------------------------
(***************************************************************************)
(* Wallet challenges, wallet sessions and admin sessions in the memory of  *)
(* one API process.                                                        *)
(*                                                                         *)
(* Endpoints run on the event loop, one after the other.  Dependencies     *)
(* that resolve a bearer token are plain functions and run in worker       *)
(* threads; they prune the dictionaries first, by building a filtered copy *)
(* of each and then binding it in place of the original.  The loop may run *)
(* between a worker's copy and its rebinding.                              *)
(*                                                                         *)
(* An operation of the loop is one step: a worker that rebinds in the      *)
(* middle of it has the effect of rebinding before it.  Objects are shared *)
(* by the copies, so `items` holds them and a dictionary is a set of ids.  *)
(***************************************************************************)
EXTENDS SingleUse, Integers, Sequences, FiniteSets, SequencesExt

CONSTANTS
    Wallets,
    Workers,            \* worker threads that resolve tokens
    WalletDicts,        \* dictionaries of the wallet manager, in pruning order
    ChallengeTtl, SessionTtl,
    MaxItems, MaxClock, MaxRestarts     \* bounds

SessionAssumption ==
    /\ ChallengeTtl \in Nat \ {0} /\ SessionTtl \in Nat \ {0}
    /\ MaxItems \in Nat /\ MaxClock \in Nat /\ MaxRestarts \in Nat
    /\ {"login", "session"} \subseteq ToSet(WalletDicts)

VARIABLES
    clock,
    items,          \* every challenge and session ever made, by id
    dict,           \* dictionary -> the ids it holds
    worker,         \* the request of each worker thread
    answer,         \* the last answer to a token
    loggedOut,      \* sessions whose logout was answered
    restarts

vars == <<clock, items, dict, worker, answer, accepted, loggedOut, restarts>>

Dicts == ToSet(WalletDicts) \cup {"admin"}
Challenges == Dicts \ {"session", "admin"}
Managers == {"session", "admin"}
Ids == 1 .. MaxItems
Made == DOMAIN items
Alive(i, now) == items[i].exp > now

\* The dictionaries a manager prunes, in order.
Pruned(mgr) == IF mgr = "admin" THEN <<"admin">> ELSE WalletDicts

Idle == [mgr |-> "session", token |-> 0, late |-> FALSE, now |-> 0, at |-> 0,
         copied |-> FALSE, copy |-> {}]
NoAnswer == [token |-> 0, ok |-> FALSE, late |-> FALSE]

Init ==
    /\ clock = 0
    /\ items = <<>>
    /\ dict = [d \in Dicts |-> {}]
    /\ worker = [t \in Workers |-> Idle]
    /\ answer = NoAnswer
    /\ accepted = [i \in Ids |-> 0]
    /\ loggedOut = {}
    /\ restarts = 0

-----------------------------------------------------------------------------
(* Operations of the event loop *)

\* The dictionaries after a manager pruned them without interruption.
prune_expired(mgr) ==
    [d \in Dicts |-> IF d \in ToSet(Pruned(mgr))
                     THEN {i \in dict[d] : Alive(i, clock)} ELSE dict[d]]

NewItem(kind, w, ttl) == [kind |-> kind, wallet |-> w, exp |-> clock + ttl, used |-> FALSE]

\* Login challenges are keyed by wallet, the others by their own message.
Insert(ds, kind, w, id) ==
    LET others == IF kind = "login"
                  THEN {i \in ds[kind] : items[i].wallet # w} ELSE ds[kind]
    IN [ds EXCEPT ![kind] = others \cup {id}]

\* POST /auth/wallet/challenge and the challenges of the signed operations.
issue_challenge(kind, w) ==
    /\ Len(items) < MaxItems
    /\ items' = Append(items, NewItem(kind, w, ChallengeTtl))
    /\ dict' = Insert(prune_expired("session"), kind, w, Len(items) + 1)
    /\ UNCHANGED <<clock, worker, answer, accepted, loggedOut, restarts>>

\* Report and dispute challenges are looked up without pruning.
Lookup(kind) == IF kind \in {"report", "dispute"} THEN dict ELSE prune_expired("session")

\* The checks of verify_*: found, unused, unexpired, the caller's own.
MayVerify(c, w, ds) ==
    /\ c \in ds[items[c].kind]
    /\ ~items[c].used
    /\ Alive(c, clock)
    /\ items[c].wallet = w

\* Bug: the challenge is taken out of the dictionary instead of being marked.
RemoveInsteadOfMark(c, w) ==
    /\ items[c].kind \in Challenges \ {"login"}
    /\ MayVerify(c, w, Lookup(items[c].kind))
    /\ dict' = [Lookup(items[c].kind) EXCEPT ![items[c].kind] = @ \ {c}]
    /\ accepted' = [accepted EXCEPT ![c] = @ + 1]
    /\ UNCHANGED <<clock, items, worker, answer, loggedOut, restarts>>

\* A signed vote, report, dispute, transfer or submission.
verify_operation(c, w) ==
    /\ items[c].kind \in Challenges \ {"login"}
    /\ MayVerify(c, w, Lookup(items[c].kind))
    /\ items' = [items EXCEPT ![c].used = TRUE]
    /\ dict' = Lookup(items[c].kind)
    /\ accepted' = [accepted EXCEPT ![c] = @ + 1]
    /\ UNCHANGED <<clock, worker, answer, loggedOut, restarts>>

\* POST /auth/wallet/verify: a signed login challenge becomes a session.
verify_signature(c, w) ==
    /\ items[c].kind = "login"
    /\ MayVerify(c, w, Lookup("login"))
    /\ Len(items) < MaxItems
    /\ items' = Append([items EXCEPT ![c].used = TRUE], NewItem("session", w, SessionTtl))
    /\ dict' = Insert(Lookup("login"), "session", w, Len(items) + 1)
    /\ accepted' = [accepted EXCEPT ![c] = @ + 1]
    /\ UNCHANGED <<clock, worker, answer, loggedOut, restarts>>

\* POST /admin/login.
issue_admin_session(w) ==
    /\ Len(items) < MaxItems
    /\ items' = Append(items, NewItem("admin", w, SessionTtl))
    /\ dict' = Insert(prune_expired("admin"), "admin", w, Len(items) + 1)
    /\ UNCHANGED <<clock, worker, answer, accepted, loggedOut, restarts>>

\* POST /auth/wallet/logout.
revoke_session(t) ==
    /\ items[t].kind = "session"
    /\ t \in prune_expired("session")["session"]
    /\ dict' = [prune_expired("session") EXCEPT !["session"] = @ \ {t}]
    /\ loggedOut' = loggedOut \cup {t}
    /\ UNCHANGED <<clock, items, worker, answer, accepted, restarts>>

\* POST /admin/logout resolves the session, then removes it.
admin_logout(t) ==
    /\ items[t].kind = "admin"
    /\ t \in prune_expired("admin")["admin"]
    /\ dict' = [prune_expired("admin") EXCEPT !["admin"] = @ \ {t}]
    /\ loggedOut' = loggedOut \cup {t}
    /\ UNCHANGED <<clock, items, worker, answer, accepted, restarts>>

\* Whether a pruned dictionary still yields the session.
Resolves(t, mgr, ds) == t \in ds[mgr] /\ Alive(t, clock)

\* A token resolved by an endpoint itself (GET /admin/session, /review/policy).
LoopResolve(t) ==
    LET mgr == items[t].kind
        ds  == prune_expired(mgr)
    IN /\ mgr \in Managers
       /\ dict' = ds
       /\ answer' = [token |-> t, ok |-> Resolves(t, mgr, ds), late |-> t \in loggedOut]
       /\ UNCHANGED <<clock, items, worker, accepted, loggedOut, restarts>>

-----------------------------------------------------------------------------
(* Worker threads: the dependency of an authenticated endpoint *)

BeginResolve(h, t) ==
    /\ worker[h] = Idle
    /\ items[t].kind \in Managers
    /\ worker' = [worker EXCEPT ![h] = [Idle EXCEPT !.mgr = items[t].kind, !.token = t,
                      !.late = t \in loggedOut, !.now = clock, !.at = 1]]
    /\ UNCHANGED <<clock, items, dict, answer, accepted, loggedOut, restarts>>

Current(h) == Pruned(worker[h].mgr)[worker[h].at]
Pruning(h) == worker[h].at \in 1 .. Len(Pruned(worker[h].mgr))

CopyDict(h) ==
    /\ Pruning(h) /\ ~worker[h].copied
    /\ worker' = [worker EXCEPT ![h].copied = TRUE,
                      ![h].copy = {i \in dict[Current(h)] : Alive(i, worker[h].now)}]
    /\ UNCHANGED <<clock, items, dict, answer, accepted, loggedOut, restarts>>

Rebind(h) ==
    /\ Pruning(h) /\ worker[h].copied
    /\ dict' = [dict EXCEPT ![Current(h)] = worker[h].copy]
    /\ worker' = [worker EXCEPT ![h].copied = FALSE, ![h].copy = {}, ![h].at = @ + 1]
    /\ UNCHANGED <<clock, items, answer, accepted, loggedOut, restarts>>

resolve_session(h) ==
    LET t  == worker[h].token
        ok == Resolves(t, worker[h].mgr, dict)
    IN /\ worker[h].at > Len(Pruned(worker[h].mgr))
       /\ answer' = [token |-> t, ok |-> ok, late |-> worker[h].late]
       /\ dict' = IF ok THEN dict ELSE [dict EXCEPT ![worker[h].mgr] = @ \ {t}]
       /\ worker' = [worker EXCEPT ![h] = Idle]
       /\ UNCHANGED <<clock, items, accepted, loggedOut, restarts>>

-----------------------------------------------------------------------------
Tick ==
    /\ clock < MaxClock
    /\ clock' = clock + 1
    /\ UNCHANGED <<items, dict, worker, answer, accepted, loggedOut, restarts>>

\* Everything here lives in memory only.
Restart ==
    /\ restarts < MaxRestarts
    /\ restarts' = restarts + 1
    /\ dict' = [d \in Dicts |-> {}]
    /\ worker' = [h \in Workers |-> Idle]
    /\ UNCHANGED <<clock, items, answer, accepted, loggedOut>>

Next ==
    \/ \E w \in Wallets :
          \/ \E k \in Challenges : issue_challenge(k, w)
          \/ \E c \in Made : verify_operation(c, w) \/ verify_signature(c, w)
          \/ issue_admin_session(w)
    \/ \E t \in Made : revoke_session(t) \/ admin_logout(t) \/ LoopResolve(t)
    \/ \E h \in Workers :
          \/ \E t \in Made : BeginResolve(h, t)
          \/ CopyDict(h) \/ Rebind(h) \/ resolve_session(h)
    \/ Tick \/ Restart

Spec == Init /\ [][Next]_vars

-----------------------------------------------------------------------------
(* Properties *)

\* Types, and every dictionary holds objects of its own kind.
TypeOK ==
    /\ clock \in 0 .. MaxClock /\ restarts \in 0 .. MaxRestarts
    /\ items \in Seq([kind : Dicts, wallet : Wallets, exp : Nat, used : BOOLEAN])
    /\ Len(items) <= MaxItems
    /\ \A d \in Dicts : dict[d] \subseteq {i \in Made : items[i].kind = d}
    /\ answer.token \in 0 .. MaxItems
    /\ loggedOut \subseteq {i \in Made : items[i].kind \in Managers}

\* A token is accepted only before its expiry, also when it expired between a
\* worker's pruning and its lookup.
ResolvesLive ==
    (answer' # answer /\ answer'.ok) => items[answer'.token].exp > clock
ResolvesOnlyLive == [][ResolvesLive]_vars

\* A signature is accepted only within the lifetime of its challenge, though
\* report and dispute challenges are looked up without pruning.
VerifiesLive ==
    \A i \in Made : accepted'[i] # accepted[i] => items[i].exp > clock
VerifiesOnlyLive == [][VerifiesLive]_vars

\* A request that arrives after the logout of its session is refused.
LogoutSticks == ~(answer.ok /\ answer.late)

\* While the process lives, what it issued and what was neither used, replaced
\* by a newer login challenge, logged out nor expired can still be found.
Replaced(i) ==
    items[i].kind = "login"
    /\ \E j \in Made : j > i /\ items[j].kind = "login" /\ items[j].wallet = items[i].wallet
IssuedIsFound ==
    restarts = 0 =>
        \A i \in Made : (Alive(i, clock) /\ ~items[i].used /\ ~Replaced(i) /\ i \notin loggedOut)
                            => i \in dict[items[i].kind]

=============================================================================
