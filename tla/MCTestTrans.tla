---------------------------- MODULE MCTestTrans ----------------------------
EXTENDS TestTransProperties
(* The misses that run Trans finds for the first of its layouts.           *)
MissesOfTrans == <<287, 1427, 1992>>
============================================================================
