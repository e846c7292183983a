---------------------------- MODULE DialHistory ----------------------------
(***************************************************************************)
(* PeerManager with a history variable: how many dials libp2p has begun to *)
(* each peer (saturating like failCount).  A dial begins when a goroutine  *)
(* starts to wait for a peer nobody was waiting for.  The history ends     *)
(* with the signal: on a cancelled context Connect fails without a dial.   *)
(***************************************************************************)
EXTENDS PeerManager

VARIABLE begun

historyVars == <<vars, begun>>

HistoryInit == Init /\ begun = [p \in Peer |-> 0]

HistoryNext ==
  /\ Next
  /\ ~cancelled'
  /\ begun' = [p \in Peer |-> IF Waiting(p) = {} /\ Waiting(p)' # {}
                              THEN Lesser(begun[p] + 1, FailCap) ELSE begun[p]]

HistorySpec == HistoryInit /\ [][HistoryNext]_historyVars

-----------------------------------------------------------------------------

(***************************************************************************)
(* peermanager_test.go: "First failure: 30s backoff", "Second failure: 60s *)
(* backoff".  A failed dial counts as one failure: failCount is never more *)
(* than the number of dials that were made.                                *)
(***************************************************************************)
OneFailurePerDial == \A p \in Peer : backoff[p].failCount <= begun[p]
=============================================================================
