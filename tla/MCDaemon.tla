------------------------------ MODULE MCDaemon ------------------------------
(***************************************************************************)
(* The daemon's process and the processes around it, checked in one run: a *)
(* behaviour is of one part, chosen at the start.  Each part has its own   *)
(* variables, which stay at one initial state while another part runs.     *)
(***************************************************************************)
EXTENDS DaemonLock, Activation, ModelSwitch, ModelConsent, Commands, McpServer,
        DaemonLife, LiveConfig

CONSTANT Parts

ASSUME PartsAssumption ==
  Parts \subseteq {"lock", "activation", "switch", "consent", "command", "mcp", "life", "config"}

VARIABLE part

lockVars == vars
partVars == <<lockVars, activationVars, switchVars, consentVars, commandVars, mcpVars,
              lifeVars, liveVars>>
allVars == <<part, partVars>>

-----------------------------------------------------------------------------
(* A part that does not run has one initial state.  The settings of a      *)
(* command are alike: the daemon boots with the same one.                  *)
AllInit ==
  /\ part \in Parts
  /\ Init /\ ActivationInit /\ SwitchInit /\ ConsentInit /\ CommandInit /\ McpInit
  /\ LifeInit /\ LiveInit
  /\ part # "activation" => ~active
  /\ part # "switch" => choice = CHOOSE m \in Catalog : TRUE
  /\ part # "command" => daemon = "off"
  /\ part # "mcp" => transport = "stdio" /\ ~config.admin /\ ~config.logs
  /\ part # "life" => every
  /\ liveCommand = [a \in External |-> CHOOSE s \in Setting : TRUE]
  /\ part # "config" => liveOn = {} /\ tool = {} /\ indexed = {}

AllNext ==
  /\ UNCHANGED part
  /\ \/ /\ part = "lock" /\ SoloNext
        /\ UNCHANGED <<activationVars, switchVars, consentVars, commandVars, mcpVars,
                        lifeVars, liveVars>>
     \/ /\ part = "activation" /\ ActivationNext
        /\ UNCHANGED <<lockVars, switchVars, consentVars, commandVars, mcpVars,
                        lifeVars, liveVars>>
     \/ /\ part = "switch" /\ SwitchNext
        /\ UNCHANGED <<lockVars, activationVars, consentVars, commandVars, mcpVars,
                        lifeVars, liveVars>>
     \/ /\ part = "consent" /\ ConsentNext
        /\ UNCHANGED <<lockVars, activationVars, switchVars, commandVars, mcpVars,
                        lifeVars, liveVars>>
     \/ /\ part = "command" /\ CommandNext
        /\ UNCHANGED <<lockVars, activationVars, switchVars, consentVars, mcpVars,
                        lifeVars, liveVars>>
     \/ /\ part = "mcp" /\ McpNext
        /\ UNCHANGED <<lockVars, activationVars, switchVars, consentVars, commandVars,
                        lifeVars, liveVars>>
     \/ /\ part = "life" /\ LifeNext
        /\ UNCHANGED <<lockVars, activationVars, switchVars, consentVars, commandVars,
                        mcpVars, liveVars>>
     \/ /\ part = "config" /\ LiveNext
        /\ UNCHANGED <<lockVars, activationVars, switchVars, consentVars, commandVars,
                        mcpVars, lifeVars>>

-----------------------------------------------------------------------------
(* A command's and a request's own steps, the passes', and the parts of a  *)
(* shutdown go on; nobody has to ask for anything.                         *)
LockFairness == \A p \in Proc : WF_vars(Steps(p))

ActivationFairness ==
  /\ WF_activationVars(RebuildEnds)
  /\ \A c \in Caller : WF_activationVars(Proceeds(c))

(* In the parts with signals, a shutdown's.                                *)
PartFairness == LifeFairness /\ \A s \in Signal : WF_mcpVars(ServerShutsDown(s))

AllFairSpec ==
  /\ AllInit /\ [][AllNext]_allVars
  /\ LockFairness /\ ActivationFairness /\ CommandFairness /\ PartFairness

-----------------------------------------------------------------------------
(* Nothing hangs.  DaemonLock: every start and stop ends.  Activation: no  *)
(* project is left in the activating set, answering 409 for ever, and no   *)
(* job is shown as running for ever.  Commands: every command ends.        *)
(* DaemonLife and McpServer: a signal ends the daemon, and the server.     *)
DaemonProgress ==
  /\ CommandsEnd
  /\ activating ~> ~activating
  /\ job = "running" ~> job # "running"
  /\ CommandEnds
  /\ ShutdownEnds
  /\ SignalEnds
=============================================================================
