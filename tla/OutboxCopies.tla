---------------------------- MODULE OutboxCopies ----------------------------
(***************************************************************************)
(* When does a flag have more than one copy on Arweave?  The docstring of  *)
(* aegis-monitor/src/aegis_monitor/arweave/writer.py gives two answers:    *)
(* SKIP LOCKED keeps several writers from uploading a row twice, and a row *)
(* whose upload succeeded without its COMMIT is uploaded again.  This      *)
(* module follows the outbox with a history variable and states that there *)
(* is no third way.                                                        *)
(***************************************************************************)
EXTENDS ArweaveOutbox

CONSTANT Tracked   \* the rows whose history is kept

ASSUME TrackedAssumption == Tracked \subseteq Row

VARIABLE
  dropped   \* history: tracked rows a transaction uploaded, or may still upload,
            \* without a receipt coming of it

copyVars == <<vars, dropped>>

(* The transaction of w has been dropped, and w goes on uploading its rows. *)
UploadsForNothing(w, r) == w \in severed /\ r \in InHand(w)

(* The step takes an uploaded row out of the hands of w without a receipt. *)
LosesReceipt(w, r) ==
  /\ r \in current[w] \union noted[w]
  /\ r \notin current'[w] \union noted'[w]
  /\ status'[r] # "archived"

NowDropped == {r \in Tracked : \E w \in Writer : LosesReceipt(w, r) \/ UploadsForNothing(w, r)'}

CopyInit == Init /\ dropped = {}
CopyNext == Next /\ dropped' = dropped \union NowDropped
CopySpec == CopyInit /\ [][CopyNext]_copyVars /\ \A w \in Writer : WF_vars(Progress(w))

-----------------------------------------------------------------------------
(* A second copy of a flag means that a transaction which had uploaded it, *)
(* or was about to when its connection broke, came to nothing.  Writers    *)
(* whose COMMITs go through never upload a row twice between them, however *)
(* they are scheduled and whichever rows they select.                      *)
SecondCopyMeansRollback == \A r \in Tracked : copies[r] > 1 => r \in dropped
=============================================================================
