----------------------------- MODULE UploadCall ------------------------------
(***************************************************************************)
(* What a storage service promises the uploader about Upload, without      *)
(* requests, retries, tokens or files: the object is only ever stored      *)
(* whole, success means that this call has stored it, and an error means   *)
(* nothing about it. CldyUploader builds on this.                          *)
(***************************************************************************)
CONSTANTS Payload, None

VARIABLES
  current,  \* the payload being uploaded
  landed,   \* has this call stored it?
  object,   \* what is stored of each payload
  result    \* of the last call

Init ==
  /\ current = None /\ landed = FALSE /\ result = "none"
  /\ object = [p \in Payload |-> "none"]

Call(p) ==
  /\ current = None /\ current' = p
  /\ landed' = FALSE /\ result' = "none"
  /\ UNCHANGED object

\* A retried request may store it again.
Store ==
  /\ current # None
  /\ landed' = TRUE /\ object' = [object EXCEPT ![current] = "whole"]
  /\ UNCHANGED <<current, result>>

Succeed ==
  /\ current # None /\ landed
  /\ current' = None /\ landed' = FALSE /\ result' = "ok"
  /\ UNCHANGED object

\* The object may be stored all the same: answers can be lost.
Fail ==
  /\ current # None
  /\ current' = None /\ landed' = FALSE /\ result' = "error"
  /\ UNCHANGED object

Next == (\E p \in Payload : Call(p)) \/ Store \/ Succeed \/ Fail

Spec == Init /\ [][Next]_<<current, landed, object, result>>
=============================================================================
