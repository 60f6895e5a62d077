----------------------------- MODULE MCOdBridge -----------------------------
(* OdBridge for TLC: an engineer's tool that writes and reads back, and a  *)
(* script that asks once and competes with it for the bridge.              *)
EXTENDS OdBridge, TLC

Write(b) == [kind |-> "write", at |-> b, val |-> 1]
Read(b) == [kind |-> "read", at |-> b, val |-> 0]

MCAsks == "tool" :> {Write("motor"), Read("motor")} @@ "script" :> {Write("motor"), Write("cmc")}
MCMaxSeq == "tool" :> 2 @@ "script" :> 1

=============================================================================
