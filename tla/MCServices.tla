----------------------------- MODULE MCServices -----------------------------
(***************************************************************************)
(* What goes on in the background: the session of a mux, the loop that      *)
(* keeps a reverse mux open, the health of the servers and the accounts of  *)
(* the users.  Each is a machine of its own; a behaviour of this module is  *)
(* a behaviour of one of them.                                              *)
(***************************************************************************)
EXTENDS MuxSession, ReverseUpstream, ServerHealth, ServerAccounts

VARIABLE focus      \* the machine this behaviour is about

serviceVars == <<focus, sessVars, upVars, healthVars, accVars>>

ServiceInit ==
    /\ focus \in {"session", "upstream", "health", "accounts"}
    /\ SessInit /\ UpInit /\ HealthInit /\ AccInit

ServiceNext ==
    /\ UNCHANGED focus
    /\ \/ focus = "session" /\ SessNext /\ UNCHANGED <<upVars, healthVars, accVars>>
       \/ focus = "upstream" /\ UpNext /\ UNCHANGED <<sessVars, healthVars, accVars>>
       \/ focus = "health" /\ HealthNext /\ UNCHANGED <<sessVars, upVars, accVars>>
       \/ focus = "accounts" /\ AccNext /\ UNCHANGED <<sessVars, upVars, healthVars>>

\* SessFairness, UpFairness, HealthFairness and AccFairness, each for the
\* behaviours about its machine.
ServiceFairness ==
    /\ \A e \in End : WF_sessVars(focus = "session" /\ SessionReader(e))
    /\ WF_sessVars(focus = "session" /\ SwitchObfPool)
    /\ WF_sessVars(focus = "session" /\ DeadlineFires)
    /\ WF_upVars(focus = "upstream" /\ LoopStep)
    /\ \A m \in 1..MaxMuxes : WF_upVars(focus = "upstream" /\ ForgetPrefix(m))
    /\ WF_healthVars(focus = "health" /\ HealthTick)
    /\ WF_accVars(focus = "accounts" /\ FlushStep)
    /\ WF_accVars(focus = "accounts" /\ SweepDrop)

ServiceSpec == ServiceInit /\ [][ServiceNext]_serviceVars /\ ServiceFairness
=============================================================================
