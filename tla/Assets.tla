------------------------------- MODULE Assets -------------------------------
(***************************************************************************)
(* Content-addressed assets of one tenant (decision D17): presigned        *)
(* uploads, the PUT of the bytes, their verification, and the asset row.   *)
(*                                                                         *)
(* A presigned URL is a signed token with a storage key.  Nothing records  *)
(* that it was used, so a client may repeat its PUT, with the same bytes   *)
(* or others.  The bytes are written first, then read back and checked,    *)
(* and only then does a transaction look for a row with the same hash and  *)
(* insert one: three steps another request can run between.                *)
(*                                                                         *)
(* call[c] is what one HTTP request in flight is doing; the modules        *)
(* Products and Templates add their own operations to it.                  *)
(***************************************************************************)
EXTENDS Naturals, Sequences, FiniteSets

CONSTANTS
    Callers,    \* HTTP requests in flight
    Photos,     \* contents of a file, told apart by their SHA-256
    Unfit,      \* photos verification refuses: unreadable, too big, unsafe
    Poor,       \* photos verification admits and input validation rejects
    MaxKeys,    \* bound: presigned uploads
    Scopes      \* the bounds of a behaviour: one scope is chosen at the start

\* What a scope bounds: presigned uploads, PUTs on one of them, revisions of
\* the live definitions, published versions, captured images, templates.
Bounds == {"uploads", "puts", "revisions", "versions", "images", "templates"}

ASSUME AssetAssumptions ==
    /\ Unfit \subseteq Photos /\ Poor \subseteq Photos
    /\ MaxKeys \in Nat
    /\ Scopes \subseteq [Bounds -> Nat] /\ \A s \in Scopes : s.uploads <= MaxKeys

\* UPLOADABLE_ASSET_KINDS: what a browser may upload.
UploadKinds == {"template", "input"}

Keys == 1..MaxKeys
NoBytes == "no bytes"
NotRequested == "not requested"

VARIABLES
    kinds,      \* the kind each presigned URL was issued for
    storage,    \* the object at each storage key
    puts,       \* PUTs made on each presigned URL
    assets,     \* assets: the rows, with the hash and the storage key of each
    call,       \* the request each caller has in flight
    scope       \* the bounds of this behaviour

AssetRows == [key: Keys, photo: Photos]

\* op says which step is next; on is the key, image or template worked on;
\* value is what the request carries across its steps.
Idle == [op |-> "idle"]
Request(op, on, value) == [op |-> op, on |-> on, value |-> value]

AssetsInit ==
    /\ kinds = [k \in Keys |-> NotRequested]
    /\ storage = [k \in Keys |-> NoBytes]
    /\ puts = [k \in Keys |-> 0]
    /\ assets = {}
    /\ call = [c \in Callers |-> Idle]
    /\ scope \in Scopes

\* get_by_sha256.
Rows(photo, kind) == {a \in assets : a.photo = photo /\ kinds[a.key] = kind}

\* The request ends, whatever it answers.
Ends(c) == call' = [call EXCEPT ![c] = Idle]
Continues(c, op, value) == call' = [call EXCEPT ![c] = Request(op, @.on, value)]

\* Object storage with `data' at key k; nothing is there after a deletion.
Written(k, data) == [storage EXCEPT ![k] = data]

------------------------------------------------------------------------------

\* RequestUpload: a token for a fresh storage key.
RequestUpload(kind) ==
    \E k \in 1..scope.uploads :
        /\ kinds[k] = NotRequested
        /\ \A j \in 1..(k - 1) : kinds[j] # NotRequested
        /\ kinds' = [kinds EXCEPT ![k] = kind]
        /\ UNCHANGED <<storage, puts, assets, call>>

\* receive_upload: the token is decoded, the body is read within its cap and
\* accept_upload writes the bytes at the token's key, over what is there.
ReceiveUpload(c, k, photo) ==
    /\ call[c] = Idle
    /\ kinds[k] # NotRequested
    /\ puts[k] < scope.puts
    /\ puts' = [puts EXCEPT ![k] = @ + 1]
    /\ storage' = Written(k, photo)
    /\ call' = [call EXCEPT ![c] = Request("verify", k, NoBytes)]
    /\ UNCHANGED <<kinds, assets>>

\* The checks of size, format, dimensions and moderation.
Admits(data) == data \notin Unfit

\* VerifyAndRegisterUpload up to its transaction: the bytes are read back (a
\* missing object is a NotFoundError) and checked; unfit bytes are deleted.
VerifyUpload(c) ==
    /\ call[c].op = "verify"
    /\ LET k == call[c].on
           data == storage[k]
       IN  IF data # NoBytes /\ Admits(data)
           THEN Continues(c, "register", data) /\ UNCHANGED storage
           ELSE Ends(c) /\ storage' = Written(k, NoBytes)
    /\ UNCHANGED <<kinds, puts, assets>>

\* Mutant: the duplicate's older copy is discarded instead of the new one.
DiscardedOld(k, data) ==
    [j \in Keys |-> IF \E a \in Rows(data, kinds[k]) : a.key = j THEN NoBytes ELSE storage[j]]

\* Deduplication discards this upload's copy.
Discarded(k, data) == Written(k, NoBytes)

\* The transaction looks for a row of the same hash and kind.
RegisterRead(c) ==
    /\ call[c].op = "register"
    /\ LET k == call[c].on
           data == call[c].value
       IN  IF Rows(data, kinds[k]) # {}
           THEN Ends(c) /\ storage' = Discarded(k, data)
           ELSE Continues(c, "insert", data) /\ UNCHANGED storage
    /\ UNCHANGED <<kinds, puts, assets>>

\* UNIQUE (tenant_id, sha256, kind).
HashIsFree(data, kind) == Rows(data, kind) = {}

\* Its INSERT.  The loser of a race gets an IntegrityError and leaves its
\* bytes behind.
RegisterInsert(c) ==
    /\ call[c].op = "insert"
    /\ LET k == call[c].on
           data == call[c].value
       IN  assets' = IF HashIsFree(data, kinds[k])
                     THEN assets \cup {[key |-> k, photo |-> data]}
                     ELSE assets
    /\ Ends(c)
    /\ UNCHANGED <<kinds, storage, puts>>

AssetsNext ==
    \/ \E kind \in UploadKinds : RequestUpload(kind)
    \/ \E c \in Callers, k \in Keys, p \in Photos : ReceiveUpload(c, k, p)
    \/ \E c \in Callers : VerifyUpload(c) \/ RegisterRead(c) \/ RegisterInsert(c)
=============================================================================
