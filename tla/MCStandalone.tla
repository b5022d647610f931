----------------------------- MODULE MCStandalone -----------------------------
\* Standalone for TLC: an instance of each component.
EXTENDS Standalone, SequencesExt

(***************************************************************************)
(* Batches of up to three lines into rings of two to four slots, so that   *)
(* one call goes round a ring and more.                                    *)
(***************************************************************************)

MCBatch == BoundedSeq(Line, 3)
MCCapacities == {0, 2, 3}

(***************************************************************************)
(* Templates A and B: A is built in and configured again, with a partition *)
(* that is not offered and hidden fields; the configuration has a default  *)
(* of the wrong type, an account nobody offers, and orders accounts.       *)
(***************************************************************************)

Fields == {"name", "partition", "qos", "account", "cpus", "timeLimit", "workingDir", "gpus",
           "emailNotify", "email", "comment", "gres", "exclusive"}

Values(r) == [f \in Fields |-> IF f \in DOMAIN r THEN r[f] ELSE ""]

MCHardDefaults == Values([cpus |-> "1", timeLimit |-> "1:00:00"])
MCFormDefaults ==
  Values([cpus |-> "2", email |-> "me", account |-> "typo", comment |-> "c", gres |-> "ill"])

MCTemplatesOf ==
  [builtin |-> <<[name |-> "A", values |-> Values([name |-> "a", partition |-> "normal",
                                                   gpus |-> "1"])]>>,
   config |-> <<[name |-> "A", values |-> Values([partition |-> "gone", gres |-> "g",
                                                  cpus |-> "ill", emailNotify |-> "on"])]>>,
   saved |-> <<[name |-> "B", values |-> Values([partition |-> "normal", qos |-> "high",
                                                 exclusive |-> "on", comment |-> "d"])]>>]

MCConfiguredHidden == [all |-> {}, of |-> [A |-> {"partition", "gres"}]]
MCFieldOptions == [partition |-> <<>>, qos |-> <<"high">>, account |-> <<"x", "y">>]

MCOffers == {[partition |-> <<"debug", "normal">>, qos |-> <<"low">>, account |-> <<"y">>],
             [partition |-> <<>>, qos |-> <<>>, account |-> <<>>]}
MCUserRecords == {[name |-> "u", account |-> "y", qos |-> ""],
                  [name |-> "u", account |-> "", qos |-> "low"],
                  [name |-> "", account |-> "", qos |-> ""]}

MCEntries == [f \in Fields |-> CASE f = "name" -> {"n"}
                                 [] f = "timeLimit" -> {"bad"}
                                 [] f = "partition" -> {"debug", "normal"}
                                 [] f = "emailNotify" -> {"", "on"}
                                 [] f = "cpus" -> {"3"}
                                 [] OTHER -> {}]

(***************************************************************************)
(* Two nodes, one without a partition, and two states that are asked for.  *)
(***************************************************************************)

MCInitialHosts == <<[state |-> "IDLE", reason |-> ""], [state |-> "DOWN", reason |-> ""]>>
MCPartition == <<"batch", "<no partition>">>
MCInitialStates == <<"IDLE", "MIXED">>

(***************************************************************************)
(* A text that is in the partition of the first job, in no field of the    *)
(* second, in the user of the third, and in the state and the partition of *)
(* a node: the second result is better than the first.                     *)
(***************************************************************************)

Holding(fields, t, in) == [f \in fields |-> IF f \in in THEN {t} ELSE {}]
JobHolding(in) == Holding({"id", "name", "user", "partition", "state"}, "mix", in)
NodeHolding(in) == Holding({"name", "state", "features", "partitions"}, "mix", in)

MCObjects ==
  [jobs |-> <<[name |-> "1", holds |-> JobHolding({"partition"})],
              [name |-> "2", holds |-> JobHolding({})],
              [name |-> "3", holds |-> JobHolding({"user"})]>>,
   nodes |-> <<[name |-> "n", holds |-> NodeHolding({"state", "partitions"})]>>]

(***************************************************************************)
(* The request for the nodes fails, or finds 20 % or 30 % of them away; the*)
(* queue is at its limit, and the utilization at its own with memory       *)
(* unknown.                                                                *)
(***************************************************************************)

NodesAway(down, drain) == [failed |-> FALSE, total |-> 10, down |-> down, drain |-> drain]

MCAnswers ==
  [nodes |-> {[failed |-> TRUE], NodesAway(1, 1), NodesAway(2, 1)},
   queue |-> {[failed |-> FALSE, pending |-> 100]},
   utilization |-> {[failed |-> FALSE, cpu |-> 90, memory |-> -1]}]

=============================================================================
