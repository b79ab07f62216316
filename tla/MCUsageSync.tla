---------------------------- MODULE MCUsageSync ----------------------------
(* One source has rows, the native source's coverage rows come along.         *)
EXTENDS UsageSync, TLC

OneRowAPage == [s \in Sources |-> 1]
Only(s, stamps) == [t \in Sources |-> IF t = s THEN stamps ELSE <<>>]

\* A harness with two rows of one second and a later one, the native ledger, and
\* OMP with one row or with two.
TwoOmpRows == Only("omp", <<1, 2>>)
OneSourceEach == {Only("harness", <<1, 1, 2>>), Only("native", <<1>>), Only("omp", <<1>>),
                  TwoOmpRows}
\* A third pass lets a coverage row for dropped rows meet native rows.
Beats == [log \in OneSourceEach |-> IF log.native # <<>> THEN 3 ELSE 2]
Trouble == [log \in OneSourceEach |-> IF log = TwoOmpRows THEN 0 ELSE 1]
=============================================================================
