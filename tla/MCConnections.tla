---------------------------- MODULE MCConnections ----------------------------
(***************************************************************************)
(* What a connection goes through on its way from the local program to the  *)
(* target: the request at the client, the request at the server, the relays *)
(* and the lookups.  Each is a machine of its own; a behaviour of this      *)
(* module is a behaviour of one of them.                                    *)
(***************************************************************************)
EXTENDS ClientConnect, ServerChannel, RelayPair, DNSFlights

VARIABLE focus      \* the machine this behaviour is about

connectionVars == <<focus, ccVars, scVars, rpVars, flightVars>>

ConnectionInit ==
    /\ focus \in {"connect", "channel", "relay", "dns"}
    /\ CcInit /\ ScInit /\ RpInit /\ FlightInit

ConnectionNext ==
    /\ UNCHANGED focus
    /\ \/ focus = "connect" /\ CcNext /\ UNCHANGED <<scVars, rpVars, flightVars>>
       \/ focus = "channel" /\ ScNext /\ UNCHANGED <<ccVars, rpVars, flightVars>>
       \/ focus = "relay" /\ RpNext /\ UNCHANGED <<ccVars, scVars, flightVars>>
       \/ focus = "dns" /\ FlightNext /\ UNCHANGED <<ccVars, scVars, rpVars>>

\* CcFairness, ScFairness, RpFairness and FlightFairness, each for the
\* behaviours about its machine.
ConnectionFairness ==
    /\ \A r \in Sessions :
          /\ WF_ccVars(focus = "connect" /\ Serve(r))
          /\ WF_ccVars(focus = "connect" /\ PumpCopies(r))
          /\ WF_ccVars(focus = "connect" /\ PumpEnds(r) /\ session[r] = "draining")
          /\ WF_ccVars(focus = "connect" /\ DeadlinePasses(r))
    /\ WF_scVars(focus = "channel" /\ Handler)
    /\ WF_scVars(focus = "channel" /\ Dialling)
    /\ WF_scVars(focus = "channel" /\ Expire)
    /\ \A e \in Relays :
          /\ WF_rpVars(focus = "relay" /\ Sending(e))
          /\ WF_rpVars(focus = "relay" /\ Receiving(e))
          /\ WF_rpVars(focus = "relay" /\ Aborting(e))
          /\ WF_rpVars(focus = "relay" /\ ReadLoop(e))
          /\ WF_rpVars(focus = "relay" /\ ReleaseRelay(e))
    /\ \A a \in Askers : WF_flightVars(focus = "dns" /\ Ask(a))

ConnectionSpec ==
    ConnectionInit /\ [][ConnectionNext]_connectionVars /\ ConnectionFairness
=============================================================================
