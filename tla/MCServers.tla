------------------------------ MODULE MCServers ------------------------------
(* asgiref and the websocket server, each by itself. *)
EXTENDS AsgiSync, AsgiServer, WebsocketServer

VARIABLE part
mcVars == <<part, asgiVars, serverVars, testVars, wsVars>>

Init ==
  /\ AsgiInit /\ ServerInit /\ TestInit /\ WsInit /\ part \in {"calls", "apps", "test", "websocket"}
  /\ part # "calls" => fr[1].kind = "sync"

Next ==
  /\ UNCHANGED part
  /\ \/ part = "calls" /\ AsgiStep /\ UNCHANGED <<serverVars, testVars, wsVars>>
     \/ part = "apps" /\ ServerStep /\ UNCHANGED <<asgiVars, testVars, wsVars>>
     \/ part = "test" /\ TestStep /\ UNCHANGED <<asgiVars, serverVars, wsVars>>
     \/ part = "websocket" /\ WsStep /\ UNCHANGED <<asgiVars, serverVars, testVars>>

Spec == Init /\ [][Next]_mcVars /\ WF_mcVars(Next)

\* Returns, where there are calls.
CallsReturn == part = "calls" => Returns
=============================================================================
