-------------------------- MODULE MCPaperPipeline --------------------------
(***************************************************************************)
(* PaperPipeline with two assets, one traded in lots of one and one in     *)
(* lots of two, and readings on both sides of every threshold of           *)
(* DecisionEngine.                                                         *)
(***************************************************************************)
EXTENDS PaperPipeline

CONSTANTS share, future

TwoLotSizes == [s \in {share, future} |-> IF s = share THEN 1 ELSE 2]

Thresholds == [price : {5, 30, 31}, distance : {1, 25},
               spread : {-100, -99, 0, 1, 99, 100}, macd : {-1, 0, 1},
               rsi : {24, 25, 29, 30, 49, 50, 70, 71, 75, 76},
               volume : {11, 12}, average : {0, 10}]
=============================================================================
