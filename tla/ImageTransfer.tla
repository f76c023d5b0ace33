---------------------------- MODULE ImageTransfer ----------------------------
(***************************************************************************)
(* What the image upload promises, without saying how: a caller offers an  *)
(* image under a task id, the store only ever gains whole images somebody  *)
(* offered under that id, and a call reports success only for an image the *)
(* store holds.  A call may fail although the store got the image, and the *)
(* store may gain an image after its call was given up.  ChunkedUpload is  *)
(* shown to implement this.                                                *)
(***************************************************************************)
CONSTANTS Payloads,    \* images a capture may produce
          Tasks,       \* task ids a caller may use
          Ids,         \* task ids an image may be stored under
          Fallback,    \* the marker "give this image an id of your own"
          Whole(_)     \* the bytes of an image

VARIABLES offered,     \* pairs <<task, image>> some call was made with
          current,     \* the pair of the last call
          outcome,     \* "none", "busy", "ok" or "error"
          stored       \* [id, bytes] of the images in the store

transferVars == <<offered, current, outcome, stored>>

MayStore(id, p) == <<id, p>> \in offered \/ <<Fallback, p>> \in offered

Fits(id, t) == t = id \/ t = Fallback

TransferInit ==
  /\ offered = {}
  /\ outcome = "none"
  /\ stored = {}

Begin(t, p) ==
  /\ outcome # "busy"
  /\ outcome' = "busy"
  /\ current' = <<t, p>>
  /\ offered' = offered \union {<<t, p>>}
  /\ UNCHANGED stored

Store(id, p) ==
  /\ MayStore(id, p)
  /\ stored' = stored \union {[id |-> id, bytes |-> Whole(p)]}
  /\ UNCHANGED <<offered, current, outcome>>

Succeed ==
  /\ outcome = "busy"
  /\ \E id \in Ids : /\ Fits(id, current[1])
                     /\ [id |-> id, bytes |-> Whole(current[2])] \in stored
  /\ outcome' = "ok"
  /\ UNCHANGED <<offered, current, stored>>

GiveUp ==
  /\ outcome = "busy"
  /\ outcome' \in {"error", "none"}
  /\ UNCHANGED <<offered, current, stored>>

TransferNext ==
  \/ \E t \in Tasks, p \in Payloads : Begin(t, p)
  \/ \E id \in Ids, p \in Payloads : Store(id, p)
  \/ Succeed
  \/ GiveUp

TransferSpec == TransferInit /\ [][TransferNext]_transferVars
------------------------------------------------------------------------------
(* Nothing is in the store but whole images somebody offered under the id  *)
(* they are stored under, or with no id at all.                            *)
WholeImagesOnly ==
  \A image \in stored :
    \E p \in Payloads : image.bytes = Whole(p) /\ MayStore(image.id, p)

(* A call that reported success left its image in the store.               *)
SuccessIsStored ==
  outcome = "ok" =>
    \E id \in Ids : /\ Fits(id, current[1])
                    /\ [id |-> id, bytes |-> Whole(current[2])] \in stored
==============================================================================
