------------------------- MODULE TimestampRegistry -------------------------
(***************************************************************************)
(* The TimestampRegistry contract and TimestampClient::commit_hash, which  *)
(* drives it.  A commit is two awaits: send() estimates gas, which fails   *)
(* when the call would revert, then broadcasts; the pending transaction is *)
(* then awaited until it is mined.  The client does not look at            *)
(* receipt.status, so a transaction that was mined and reverted counts as  *)
(* a success.                                                              *)
(***************************************************************************)
CONSTANT Roots

VARIABLE registry   \* the roots r with timestamps[r] # 0 in the contract

ReceiptStatus == {"success", "reverted"}

ChainTypeOK == registry \subseteq Roots

ChainInit == registry = {}

(* commitHash(r) is mined: require(timestamps[r] == 0), or revert. *)
commitHash(r) == registry' = registry \cup {r}
StatusOf(r)   == IF r \in registry THEN "reverted" ELSE "success"

(* send() returns a pending transaction: the estimate passed. *)
SendOk(r) == r \notin registry /\ UNCHANGED registry

(* send() fails: the estimate reverted, the endpoint refused, or only the  *)
(* answer was lost after the broadcast.                                    *)
SendErr(r) == UNCHANGED registry

(* Variant for mutation runs: success is reported after the broadcast,     *)
(* without waiting for the receipt.                                        *)
ReceiptOk_Unawaited(r) == UNCHANGED registry

(* The awaited transaction is mined and its receipt arrives. *)
ReceiptOk(r) == commitHash(r)

(* The await fails: the transaction was dropped, or the connection was     *)
(* lost while it is still in the mempool.                                  *)
ReceiptErr(r) == UNCHANGED registry

(* A commitHash(r) that nobody awaits is mined: one whose sender gave up   *)
(* or died after the broadcast, or one of another account, since           *)
(* commitHash is open to all.                                              *)
MinedElsewhere(r) == r \notin registry /\ commitHash(r)
=============================================================================
