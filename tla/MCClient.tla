------------------------------ MODULE MCClient ------------------------------
(***************************************************************************)
(* The two larger machines a client takes part in: its mux pool and a UDP   *)
(* association.  A behaviour of this module is a behaviour of one of them.  *)
(***************************************************************************)
EXTENDS MuxPool, UDPRelay

VARIABLE focus      \* the machine this behaviour is about

clientVars == <<focus, vars, udVars>>

ClientInit == focus \in {"pool", "udp"} /\ Init /\ UdInit

ClientNext ==
    /\ UNCHANGED focus
    /\ \/ focus = "pool" /\ Next /\ UNCHANGED udVars
       \/ focus = "udp" /\ UdNext /\ UNCHANGED vars

\* The fairness of FairSpec and UdFairness, each for the behaviours about its
\* machine.
ClientFairness ==
    /\ \A r \in Requests : WF_vars(focus = "pool" /\ Request(r))
    /\ WF_udVars(focus = "udp" /\ AnswerUDP) /\ WF_udVars(focus = "udp" /\ HijackAnswers)
    /\ \A e \in Ends :
          /\ WF_udVars(focus = "udp" /\ Outward(e))
          /\ WF_udVars(focus = "udp" /\ Inward(e))
          /\ WF_udVars(focus = "udp" /\ Stopping(e))
          /\ WF_udVars(focus = "udp" /\ CloseArrives(e))

ClientSpec == ClientInit /\ [][ClientNext]_clientVars /\ ClientFairness
=============================================================================
