----------------------------- MODULE BridgeStore -----------------------------
(***************************************************************************)
(* The SQLite store of internal/store as operators on values: the table    *)
(* "bridged" is a set of rows, the table "seen" the set of content hashes  *)
(* that are still inside the dedup window.  Every operator is one method   *)
(* of store.Store; the caller passes the post whose (Origin, OriginID) the *)
(* method receives and, for the writes, assigns the result to its own      *)
(* variable.  A post is a record with at least the fields plat and id.     *)
(***************************************************************************)
EXTENDS Naturals

StatusPending == "pending"
StatusOK      == "ok"
StatusError   == "error"

Status == {StatusPending, StatusOK, StatusError}

NoID == 0          \* SQL NULL in target_id, and "" where the code holds an id

Row(Platforms) ==
  [origin : Platforms, originId : Nat, target : Platforms,
   targetId : Nat, status : Status]

(* The row or rows of one (origin, originID) -> target slot.               *)
Slot(rows, post, t) ==
  {r \in rows : r.origin = post.plat /\ r.originId = post.id /\ r.target = t}

IsBridgedTarget(rows, post) ==
  \E r \in rows : r.target = post.plat /\ r.targetId = post.id

(* Mutated form: the slot is taken whatever its row says.                  *)
ClaimsAnyway(rows, post, t) == TRUE

(* The boolean ClaimBridge returns: rows in the error state are cleared    *)
(* first, so only a pending or a finished row refuses the claim.           *)
Claims(rows, post, t) ==
  \A r \in Slot(rows, post, t) : r.status = StatusError

(* The table after ClaimBridge: delete the failed row, insert or ignore.   *)
ClaimBridge(rows, post, t) ==
  LET cleared == {r \in rows : r \notin Slot(rows, post, t)
                                 \/ r.status # StatusError}
  IN  IF Slot(cleared, post, t) # {}
      THEN cleared
      ELSE cleared \cup
             {[origin |-> post.plat, originId |-> post.id, target |-> t,
               targetId |-> NoID, status |-> StatusPending]}

(* Mutated form: the status is written, the identifier is not.             *)
CompleteWithoutID(rows, post, t, id) ==
  {IF r \in Slot(rows, post, t)
   THEN [r EXCEPT !.status = StatusOK] ELSE r : r \in rows}

CompleteBridge(rows, post, t, id) ==
  {IF r \in Slot(rows, post, t)
   THEN [r EXCEPT !.targetId = id, !.status = StatusOK] ELSE r : r \in rows}

(* Mutated form: a failed pair looks finished.                             *)
FailAsDone(rows, post, t) ==
  {IF r \in Slot(rows, post, t)
   THEN [r EXCEPT !.status = StatusOK] ELSE r : r \in rows}

FailBridge(rows, post, t) ==
  {IF r \in Slot(rows, post, t)
   THEN [r EXCEPT !.status = StatusError] ELSE r : r \in rows}

(* Mutated form: the parent is looked up on whatever target it has.        *)
TargetIDAnywhere(rows, post, t) ==
  LET done == {r \in rows : /\ r.origin = post.plat
                            /\ r.originId = post.parent
                            /\ r.status = StatusOK}
  IN  IF done = {} THEN {NoID} ELSE {r.targetId : r \in done}

(* The identifier TargetID returns for the parent of a reply, as a         *)
(* singleton: {NoID} is the code's ("", false).                            *)
TargetID(rows, post, t) ==
  LET done == {r \in rows : /\ r.origin = post.plat
                            /\ r.originId = post.parent
                            /\ r.target = t
                            /\ r.status = StatusOK}
  IN  IF done = {} THEN {NoID} ELSE {r.targetId : r \in done}

SeenRecently(seen, hash) == hash \in seen

MarkSeen(seen, hash) == seen \cup {hash}
=============================================================================
