---------------------------- MODULE ContentStore ----------------------------
(* The node-local media store (content.py, content_coordination_service.py,
   peer_content_sync_service.py): one file and one SHA-256 sidecar per content
   hash, the content objects of the node's memory, and those its last save
   wrote.  The stores run one after the other on the server's event loop, so
   what comes between two of their steps is only a crash.

   The bytes under a hash are "own" (those that have this hash), "other" (valid
   media with another hash, which a block with a legacy hash carries) or
   "damaged" (what storage left of a file).  A hash of Texts belongs to a text,
   any other to an image. *)
EXTENDS ServedContent, Naturals, FiniteSets

CONSTANTS
    Hashes,      \* content hashes
    Texts,       \* those of texts
    BlockBytes,  \* the bytes blocks of these hashes may carry
    Crashes,     \* the process may stop between two steps
    Damages,     \* storage may damage or lose a file
    Development  \* unsigned submissions by bare hash are accepted

VARIABLES
    file,     \* hash -> the bytes of its file, or None
    sidecar,  \* hash -> the bytes whose digest the sidecar holds, or None
    memory,   \* hash -> content object, or None
    stored,   \* the content objects of the last save
    store,    \* the store_content_bytes under way, or None
    result    \* how the last one ended, or None

vars == <<file, sidecar, memory, stored, store, result, served>>

Bytes == {"own", "other", "damaged"}
Kind(h) == IF h \in Texts THEN "text" ELSE "image"
Object == [status: {"missing", "local", "remote", "verified"}, local: BOOLEAN,
           evidence: Bytes \union {None}, mime: {"text", "image", "unknown"},
           type: {"text", "image"}, text: {"own", "other", None}]

\* None stands for no bytes, no sidecar, no object and no store under way.
ContentStoreAssumption ==
    /\ Texts \subseteq Hashes
    /\ BlockBytes \subseteq {"own", "other"}
    /\ {Crashes, Damages, Development} \subseteq BOOLEAN
    /\ None \notin Bytes /\ None \notin Object

\* An object with a text of its own in the record, or treated as a text.
IsText(o) == o.mime = "text" \/ o.type = "text"
FileThere(o, h) == o.local /\ file[h] # None

\* Mutant: a file with a sidecar counts as verified.
VerifyByPresence(o, h) == (IsText(o) /\ o.text = "own") \/ FileThere(o, h)

\* Whether the object's bytes have its hash: a text's by the text in the record,
\* any other's by the file at its local path, decoded as the object's type.
\* The declared hash scheme needs no field: a record with scheme sha256_text has
\* its own text (Registered), so a record with another text, which comes from a
\* block, has the legacy scheme and falls through to the file.  The declared
\* size is that of the bytes last registered; "other" bytes are taken to be as
\* long as the hash's own, or the code would refuse more than the model.
verify_content_object_payload(o, h) ==
    \/ IsText(o) /\ o.text = "own"
    \/ FileThere(o, h) /\ file[h] = "own" /\ (IsText(o) => h \in Texts)

\* Whether the sidecar of the hash's file agrees with its bytes.
verify_content_file(h) == file[h] # None /\ sidecar[h] = file[h]

Init ==
    /\ file = [h \in Hashes |-> None]
    /\ sidecar = file
    /\ memory = file
    /\ stored = file
    /\ store = None
    /\ result = None
    /\ served = file

-----------------------------------------------------------------------------

\* The object after a successful store of bytes b: the record is updated or
\* created; the type of an existing record stays, only image becomes mixed.
Registered(o, h, b, evidence) ==
    LET status == IF b = "own" THEN "verified" ELSE "local"
        text   == IF h \in Texts THEN b ELSE None
    IN  IF o = None
        THEN [status |-> status, local |-> TRUE, evidence |-> evidence,
              mime |-> Kind(h), type |-> Kind(h), text |-> text]
        ELSE [o EXCEPT !.status = status, !.local = TRUE, !.mime = Kind(h),
                       !.evidence = IF evidence = None THEN @ ELSE evidence,
                       !.text = IF text = None THEN @ ELSE text]

\* The store succeeded: the object is registered; the operation then saves the
\* whole state, except the manual sync, and the save itself may fail.
Register(s) ==
    /\ memory' = [memory EXCEPT ![s.h] = Registered(@, s.h, s.bytes, s.evidence)]
    /\ stored' \in {stored} \union (IF s.saves THEN {memory'} ELSE {})
    /\ result' = [h |-> s.h, bytes |-> s.bytes, taken |-> TRUE]
    /\ store' = None

\* Whether an existing file stands for the bytes to store: verified by its
\* sidecar and the same bytes.
SameBytes(h, b) == verify_content_file(h) /\ file[h] = b

\* store_content_bytes up to its first replacement: an existing file either
\* stands for the bytes or refuses them, and is never replaced.
Begin(s) ==
    /\ store = None
    /\ \/ file[s.h] = None
          /\ store' = s
          /\ UNCHANGED <<memory, stored, result>>
       \/ file[s.h] # None /\ SameBytes(s.h, s.bytes)
          /\ Register(s)
       \/ file[s.h] # None /\ ~SameBytes(s.h, s.bytes)
          /\ result' = [h |-> s.h, bytes |-> s.bytes, taken |-> FALSE]
          /\ UNCHANGED <<memory, stored, store>>
    /\ UNCHANGED <<file, sidecar, served>>

Store(h, b, evidence, saves) ==
    Begin([h |-> h, bytes |-> b, evidence |-> evidence, saves |-> saves, step |-> "target"])

\* An upload, a content submission or a peer's submission: media validated
\* against the hash computed from it.
Upload(h) == Store(h, "own", "own", TRUE)

\* The manual sync of content that is not verified here: only bytes that have
\* the hash are stored, and nothing is saved.
sync_missing(h) ==
    /\ memory[h] # None => memory[h].status # "verified"
    /\ Store(h, "own", "own", FALSE)

\* A received block carries its media; a legacy hash is not checked against it.
cache_protocol_v1_block_content(h, b) == Store(h, b, None, TRUE)

\* os.replace of the content file.
ReplaceTarget ==
    /\ store # None /\ store.step = "target"
    /\ file' = [file EXCEPT ![store.h] = store.bytes]
    /\ store' = [store EXCEPT !.step = "sidecar"]
    /\ UNCHANGED <<sidecar, memory, stored, result, served>>

\* os.replace of the sidecar, the final verification and the registration.
ReplaceSidecar ==
    /\ store # None /\ store.step = "sidecar"
    /\ sidecar' = [sidecar EXCEPT ![store.h] = store.bytes]
    /\ Register(store)
    /\ UNCHANGED <<file, served>>

-----------------------------------------------------------------------------
\* A certificate or an old block names content the node may not have: whatever
\* is not verified becomes remote and loses its local path.
register_remote_content_reference(h) ==
    /\ store = None
    /\ memory' = [memory EXCEPT ![h] =
           IF @ = None
           THEN [status |-> "remote", local |-> FALSE, evidence |-> None,
                 mime |-> "unknown", type |-> "image", text |-> None]
           ELSE IF @.status = "verified" THEN @
           ELSE [@ EXCEPT !.status = "remote", !.local = FALSE]]
    /\ UNCHANGED <<file, sidecar, stored, store, result, served>>

\* ensure_technically_valid_content: evidence recorded once binds the bytes;
\* without it the bytes only have to be valid media of the object's type.
TechnicallyValid(o, h) ==
    /\ file[h] # None /\ o.mime = Kind(h)
    /\ IF o.evidence # None THEN o.evidence = file[h] ELSE file[h] # "damaged"

\* submit_existing_content: an unknown hash is first recorded as missing, with
\* the text of the submission; the record stays when the submission is refused.
submit_existing_content(h, text) ==
    /\ store = None
    /\ memory[h] = None => Development
    /\ LET given == [status |-> "missing", local |-> FALSE, evidence |-> None,
                     mime |-> IF text = None THEN "unknown" ELSE "text",
                     type |-> IF text = None THEN "image" ELSE "text", text |-> text]
           o     == IF memory[h] = None THEN given ELSE memory[h]
           bound == [o EXCEPT !.evidence = file[h]]
           good  == verify_content_object_payload(o, h)
       IN  \/ ~TechnicallyValid(o, h)
              /\ memory' = [memory EXCEPT ![h] = o] /\ UNCHANGED stored
           \/ TechnicallyValid(o, h) /\ o.status = "verified" /\ ~good
              /\ memory' = [memory EXCEPT ![h] = bound] /\ UNCHANGED stored
           \/ TechnicallyValid(o, h) /\ (o.status = "verified" => good)
              /\ memory' = [memory EXCEPT ![h] =
                     IF good THEN [bound EXCEPT !.status = "verified"] ELSE bound]
              /\ stored' \in {stored, memory'}
    /\ UNCHANGED <<file, sidecar, store, result, served>>

\* A download, by a user or a peer: verified just before it is served.
verify_content_download_operation(h) ==
    /\ store = None
    /\ memory[h] # None /\ verify_content_object_payload(memory[h], h)
    /\ memory' = [memory EXCEPT ![h].status = "verified"]
    /\ \/ memory[h].mime = "text" /\ memory[h].text # None
          /\ served' = [served EXCEPT ![h] = memory[h].text]
       \/ ~(memory[h].mime = "text" /\ memory[h].text # None) /\ FileThere(memory[h], h)
          /\ served' = [served EXCEPT ![h] = file[h]]
    /\ UNCHANGED <<file, sidecar, stored, store, result>>

\* What loading the state makes of an object: its status follows its bytes.
refresh_storage_statuses(o, h) ==
    IF o = None THEN None
    ELSE [o EXCEPT !.status =
        IF verify_content_object_payload(o, h) THEN "verified"
        ELSE IF ~IsText(o) /\ ~FileThere(o, h)
             THEN (IF @ \in {"local", "verified"} THEN "missing" ELSE @)
        ELSE IF FileThere(o, h) THEN "local" ELSE @]

\* The process stops wherever it is and loads the last save.
Restart ==
    /\ Crashes
    /\ memory' = [h \in Hashes |-> refresh_storage_statuses(stored[h], h)]
    /\ store' = None
    /\ UNCHANGED <<file, sidecar, stored, result, served>>

\* Storage damages or loses the file of a hash; the sidecar stays.
Damage(h) ==
    /\ Damages /\ store = None /\ file[h] # None
    /\ \E b \in {"damaged", None} : file' = [file EXCEPT ![h] = b]
    /\ UNCHANGED <<sidecar, memory, stored, store, result, served>>

Next ==
    \/ \E h \in Hashes :
        \/ Upload(h)
        \/ sync_missing(h)
        \/ \E b \in BlockBytes : cache_protocol_v1_block_content(h, b)
        \/ register_remote_content_reference(h)
        \/ \E text \in {"other", None} : submit_existing_content(h, text)
        \/ verify_content_download_operation(h)
        \/ Damage(h)
    \/ ReplaceTarget
    \/ ReplaceSidecar
    \/ Restart

Spec == Init /\ [][Next]_vars

-----------------------------------------------------------------------------
(* Types of the variables. *)
TypeOK ==
    /\ file \in [Hashes -> Bytes \union {None}]
    /\ sidecar \in [Hashes -> Bytes \union {None}]
    /\ memory \in [Hashes -> Object \union {None}]
    /\ stored \in [Hashes -> Object \union {None}]
    /\ store = None \/ store.step \in {"target", "sidecar"}
    /\ result = None \/ result.taken \in BOOLEAN
    /\ served \in [Hashes -> Bytes \union {None}]

(* Without damage an object marked verified, in memory or in the store, has its
   bytes: no crash, failed save or legacy block makes a record claim bytes the
   node does not have. *)
VerifiedHasBytes ==
    \A h \in Hashes : \A o \in {memory[h], stored[h]} :
        o # None /\ o.status = "verified" =>
            file[h] = "own" \/ (IsText(o) /\ o.text = "own")

(* Without damage a sidecar always describes the file beside it: a crash
   between the two replacements leaves a file without a sidecar, never a
   sidecar without its file (store_content_bytes). *)
SidecarDescribesFile ==
    \A h \in Hashes : sidecar[h] # None => sidecar[h] = file[h]

(* No store replaces a file that is there (store_content_bytes). *)
KeepsFiles ==
    \A h \in Hashes : file[h] # None /\ store # None /\ store.h = h =>
         file'[h] = file[h]
FilesAreImmutable == [][KeepsFiles]_vars

(* The bytes of a hash, once they are there to be stored, are never refused:
   what is missing or damaged here can be fetched again
   (docs/storage-operations.md on the manual sync). *)
\* The code does not keep this: README, section 5.
RightBytesTaken == result # None /\ ~result.taken => result.bytes # "own"

(* Content whose upload was accepted can be downloaded at once
   (docs/storage-operations.md: the download returns verified local content). *)
\* The code does not keep this: README, section 5.
UploadedIsServed ==
    result # None /\ result.taken /\ result.bytes = "own" /\ store = None
        /\ memory[result.h] # None /\ memory[result.h].status = "verified" =>
            verify_content_object_payload(memory[result.h], result.h)
=============================================================================
