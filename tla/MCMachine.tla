----------------------------- MODULE MCMachine -----------------------------
(* The machine without its card and its screen: the boot, the ATA driver   *)
(* and what runs on top of the command line.  Each of the three runs by    *)
(* itself.                                                                 *)
EXTENDS MCPrograms, MCBoot, MCAta

VARIABLE turn

machineVars == <<turn, ofPrograms, bootVars, ataVars>>

AnyLoad == CHOOSE load \in Loads : TRUE
AnySetup == [guarded |-> TRUE, careful |-> FALSE, kind |-> CHOOSE kind \in Kinds : TRUE]

MCInit ==
  /\ turn \in {"boot", "ata", "programs"}
  /\ turn # "boot" => magic = FALSE /\ tags = AnyLoad.tags /\ archive = AnyLoad.archive
  /\ turn # "ata" => setup = AnySetup
  /\ turn # "programs" => part = "keyboard"
  /\ BootInit /\ AtaInit /\ ProgramsInit

OnBoot == turn = "boot" /\ UNCHANGED <<turn, ofPrograms, ataVars>>
OnAta == turn = "ata" /\ UNCHANGED <<turn, ofPrograms, bootVars>>
OnPrograms == turn = "programs" /\ UNCHANGED <<turn, bootVars, ataVars>>

MCNext ==
  \/ OnBoot /\ BootNext
  \/ OnAta /\ AtaNext
  \/ OnPrograms /\ ProgramsNext

(* The processor runs; the drives and the user need not do anything.       *)
MCSpec == /\ MCInit /\ [][MCNext]_machineVars
          /\ WF_machineVars(OnBoot /\ BootNext)
          /\ WF_machineVars(OnAta /\ Driver)
          /\ WF_machineVars(OnPrograms /\ OnScript /\ ScriptNext)

(* Of the boot and of the calls, stated and explained in Boot and Ata.     *)
EveryBootEnds == turn = "boot" => BootEnds
EveryCallReturns == turn = "ata" => CallsReturn
=============================================================================
