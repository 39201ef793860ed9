------------------------------- MODULE Ledger -------------------------------
(***************************************************************************)
(* What the queue of a job promises, without queues, workers or attempts:  *)
(* every URL handed over is kept until it is answered.  It is given up     *)
(* only when the job has been stopped, when something has failed, or when  *)
(* more was waiting than a recovery script takes at a time.                *)
(***************************************************************************)
EXTENDS Integers

CONSTANTS
  Keys,   \* URLs, as the results name them
  Limit   \* how many waiting entries are handled without loss

VARIABLES
  status,   \* status[k]: what has become of k
  owed,     \* the URLs handed over since the last stop
  failed,   \* whether anything has failed
  backlog   \* how many entries wait

ledgerVars == <<status, owed, failed, backlog>>

Statuses == {"new", "kept", "answered", "gone"}

LedgerInit ==
  /\ status = [k \in Keys |-> "new"]
  /\ owed = {}
  /\ failed = FALSE
  /\ backlog = 0

(* A URL handed over is kept, unless it has its answer already.            *)
Accept(k) ==
  /\ status' = [status EXCEPT ![k] = IF @ = "answered" THEN @ ELSE "kept"]
  /\ owed' = owed \union {k}

(* An answer is given once, to a URL that is kept, and for good.           *)
Answer(k) ==
  /\ status[k] = "kept"
  /\ status' = [status EXCEPT ![k] = "answered"]
  /\ UNCHANGED owed

(* Some kept URLs are forgotten: not those owed, unless there is a reason. *)
Forget(K) ==
  /\ \A k \in K : status[k] = "kept"
  /\ status' = [k \in Keys |-> IF k \in K THEN "gone" ELSE status[k]]
  /\ owed' \in {owed, {}}
  /\ K \intersect owed' = {} \/ failed' \/ backlog > Limit

LedgerNext ==
  /\ failed' \in BOOLEAN /\ (failed => failed')
  /\ backlog' \in Nat
  /\ \/ \E k \in Keys : Accept(k) \/ Answer(k)
     \/ \E K \in SUBSET Keys : Forget(K)

LedgerSpec == LedgerInit /\ [][LedgerNext]_ledgerVars
=============================================================================
