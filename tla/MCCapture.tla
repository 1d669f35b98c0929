----------------------------- MODULE MCCapture ------------------------------
EXTENDS Capture, TLC

\* two connections of one address and one over IPv6
Flow(a, p, b, q) == [own |-> a, ownPort |-> p, peer |-> b, peerPort |-> q]
AllFlows == {Flow("me4", 1, "far4", 80), Flow("me4", 2, "far4", 80), Flow("me6", 1, "far6", 80)}
Links == ("eth" :> "ethernet") @@ ("tun" :> "raw")
=============================================================================
