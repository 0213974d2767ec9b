----------------------------- MODULE HostProofs -----------------------------
(***************************************************************************)
(* Proofs about what a node's host keeps: the provisioner's safety for     *)
(* every set of JDKs, every profile history, every host and every budget   *)
(* of failures (IInv is the inductive invariant; each conjunct has one     *)
(* lemma, by action), and the cleanup that takes it back (CleanInv).       *)
(***************************************************************************)
EXTENDS NodeCleanup, TLAPS

\* The stages of main after the old advertisement is withdrawn.
Working == {"install", "jdk", "swap", "launcher", "copyJaz", "configure", "patch", "dump",
            "restore", "activate", "rollback", "recover", "readiness", "annotate",
            "labelCaps", "labelReady"}

\* The stages at which every JDK of the inventory is in place.
Installed == Working \ {"install", "jdk", "swap"}

\* The stages at which the ready label is down, those of die included.
Withdrawn == Working \cup {"clearCaps", "clearAnn", "annotateError"}

\* What the advertisement relies on: it is withdrawn before anything is
\* installed, an error annotation only exists between runs, and each stage has
\* left its part of the inventory behind.
AdvertInv ==
    /\ ReadyMatchesInventory /\ ReadyExcludesError
    /\ pc \in Withdrawn => ~ready
    /\ pc \in Working => error = "none"
    /\ pc \in Working \ {"install"} => shim
    /\ pc \in {"jdk", "swap"} => \A j \in Inventory[env] \ todo : root[j] # Absent
    /\ pc = "swap" => cur \in todo
    /\ pc \in Installed => /\ active = Inventory[env]
                           /\ \A j \in Inventory[env] : root[j] # Absent
    /\ pc \in {"labelCaps", "labelReady"} => ann = env

\* The capability labels are those of the annotated generation, because label_node
\* annotates before it labels and clear_node_advertisement labels away what the
\* annotation lists; unless that annotation was misread.
CapsInv ==
    ~misread => /\ caps \subseteq CapsOf(ann)
                /\ pc \in {"clearLaunchers", "clearReady", "clearCaps"} => old = ann
                /\ pc \in {"clearReady", "clearCaps"} => oldLaunchers = ann
                /\ pc \in (Withdrawn \ {"clearCaps", "labelReady"}) => caps = {}

\* Until recovery is over, undoing the recorded mutation gives the configuration
\* the run found.
RollbackInv ==
    /\ pc \in Working => dying = "none"
    /\ pc \in Working \ {"recover"} => RolledBack = found
    /\ pc \in {"install", "jdk", "swap", "launcher", "copyJaz", "configure", "patch"} => kind = "none"
    /\ pc = "patch" => conf.primary = "none"
    /\ pc = "recover" => conf = found
    /\ pc \in {"clear", "clearLaunchers", "clearReady", "clearCaps", "clearAnn"} /\ dying = "none"
         => conf = found /\ kind = "none"
    /\ dying \in {"rolled-back", "config-rejected"} => conf = found
    /\ dying = "rolled-back" => live = conf /\ Boot(conf) = conf

\* Past activation, a validated containerd runs and has the handler.
ServeInv ==
    pc \in {"readiness", "annotate", "labelCaps", "labelReady"} /\ host.mode = "validated"
         => live # Down /\ Serves(live)

\* The launcher the profile asks for passed its probe.
LauncherComplete ==
    host.mode = "validated" /\ host.validate /\ WantsJaz[env] => jaz = "installed"

\* Past configuration, the launcher is complete.
LauncherInv == pc \in Installed \ {"launcher", "copyJaz", "configure"} => LauncherComplete

USE DEF hostVars, nodeVars, podVars, fixed, locals, At, Goto, Exit, Die, Works, Fails

\* The labels of a generation are capability labels.
LEMMA CapsOfType == \A g \in Gen : CapsOf(g) \subseteq AllCaps
BY Zenon DEF AllCaps

\* Every step of the script, the kubelet and the host keeps the types.
LEMMA TypeNext == TypeOK /\ [Next]_vars => TypeOK'
<1> SUFFICES ASSUME TypeOK, [Next]_vars PROVE TypeOK'
  BY Zenon
<1> USE ConstantsAssumption, AbsentAssumption DEF TypeOK, Label, Reason
<1>1. CASE ClearRead
  <2>1. misread' \in BOOLEAN
    BY <1>1, Zenon DEF ClearRead, ReadAnnotation
  <2> QED
    BY <1>1, <2>1 DEF ClearRead, ReadAnnotation
<1>2. CASE ClearReady
  <2>1. ready' \in BOOLEAN
    BY <1>2, Zenon DEF ClearReady
  <2> QED
    BY <1>2, <2>1 DEF ClearReady, ClearFails
<1>3. CASE ClearCaps
  BY <1>3 DEF ClearCaps, ClearFails
<1>4. CASE ClearAnn
  BY <1>4 DEF ClearAnn, ClearFails
<1>5. CASE AnnotateError
  BY <1>5 DEF AnnotateError
<1>6. CASE InstallShim
  <2>1. shim' \in BOOLEAN
    BY <1>6, Zenon DEF InstallShim
  <2> QED
    BY <1>6, <2>1 DEF InstallShim
<1>7. CASE SwapJdk
  BY <1>7 DEF SwapJdk
<1>8. CASE WriteActiveInventory
  BY <1>8 DEF WriteActiveInventory
<1>9. CASE InstallLauncher
  BY <1>9 DEF InstallLauncher
<1>10. CASE CopyLauncher
  BY <1>10 DEF CopyLauncher
<1>11. CASE Configure
  <2>1. bak' \in BOOLEAN
    BY <1>11, Zenon DEF Configure
  <2> QED
    BY <1>11, <2>1 DEF Configure, Conf, Block
<1>12. CASE PatchInPlace
  BY <1>12 DEF PatchInPlace, Conf, Block
<1>13. CASE DumpConfig
  BY <1>13 DEF DumpConfig
<1>14. CASE RestoreConfig
  BY <1>14 DEF RestoreConfig, Conf, Block, RolledBack
<1>15. CASE ActivateUnvalidated
  BY <1>15 DEF ActivateUnvalidated, Boot
<1>16. CASE ValidatedRestart
  BY <1>16 DEF ValidatedRestart, Boot, RestartFailed
<1>17. CASE RollbackConfig
  BY <1>17 DEF RollbackConfig, Conf, Block, RolledBack
<1>18. CASE Recover
  BY <1>18 DEF Recover, Boot
<1>19. CASE CheckReadiness
  BY <1>19 DEF CheckReadiness
<1>20. CASE Annotate
  BY <1>20 DEF Annotate
<1>21. CASE LabelCaps
  BY <1>21, CapsOfType DEF LabelCaps
<1>22. CASE LabelReady
  <2>1. ready' \in BOOLEAN
    BY <1>22, Zenon DEF LabelReady
  <2> QED
    BY <1>22, <2>1 DEF LabelReady
<1>23. CASE ClearError
  BY <1>23 DEF ClearError
<1>24. CASE Sleep
  BY <1>24 DEF Sleep, vars
<1>25. CASE StartPod
  BY <1>25 DEF StartPod, FirstStep
<1>26. CASE RolloutPod
  BY <1>26 DEF RolloutPod, StopPod
<1>27. CASE KillPod
  BY <1>27 DEF KillPod, StopPod
<1>28. CASE RebootHost
  BY <1>28 DEF RebootHost, Boot
<1>29. CASE EditProfile
  BY <1>29 DEF EditProfile, Gen
<1>30. ASSUME NEW j \in Jdk, InstallJdk(j) PROVE TypeOK'
  BY <1>30 DEF InstallJdk
<1>32. CASE ClearReadLaunchers
  <2>1. misread' \in BOOLEAN
    BY <1>32, Zenon DEF ClearReadLaunchers, ReadAnnotation
  <2> QED
    BY <1>32, <2>1 DEF ClearReadLaunchers, ReadAnnotation
<1>33. CASE RestartService
  BY <1>33 DEF RestartService, Boot
<1>31. CASE UNCHANGED vars
  BY <1>31 DEF vars
<1> QED
  BY <1>1, <1>2, <1>3, <1>4, <1>5, <1>6, <1>7, <1>8, <1>9, <1>10, <1>11, <1>12, <1>13, <1>14, <1>15, <1>16,
     <1>17, <1>18, <1>19, <1>20, <1>21, <1>22, <1>23, <1>24, <1>25, <1>26, <1>27, <1>28, <1>29, <1>30, <1>31, <1>32, <1>33, Zenon
     DEF Next, Script

\* Every step keeps the advertisement behind what is installed.
LEMMA AdvertNext == TypeOK /\ AdvertInv /\ [Next]_vars => AdvertInv'
<1> SUFFICES ASSUME TypeOK, AdvertInv, [Next]_vars PROVE AdvertInv'
  BY Zenon
<1> USE ConstantsAssumption, AbsentAssumption DEF TypeOK, AdvertInv, ReadyMatchesInventory, ReadyExcludesError, Withdrawn, Installed, Working
<1>1. CASE ClearRead
  BY <1>1, Zenon DEF ClearRead, ReadAnnotation
<1>2. CASE ClearReady
  BY <1>2 DEF ClearReady, ClearFails
<1>3. CASE ClearCaps
  BY <1>3, Zenon DEF ClearCaps, ClearFails
<1>4. CASE ClearAnn
  BY <1>4, Zenon DEF ClearAnn, ClearFails
<1>5. CASE AnnotateError
  BY <1>5, Zenon DEF AnnotateError
<1>6. CASE InstallShim
  BY <1>6, Zenon DEF InstallShim
<1>7. CASE SwapJdk
  BY <1>7 DEF SwapJdk
<1>8. CASE WriteActiveInventory
  BY <1>8, Zenon DEF WriteActiveInventory
<1>9. CASE InstallLauncher
  BY <1>9, Zenon DEF InstallLauncher
<1>10. CASE CopyLauncher
  BY <1>10, Zenon DEF CopyLauncher
<1>11. CASE Configure
  BY <1>11, Zenon DEF Configure
<1>12. CASE PatchInPlace
  BY <1>12, Zenon DEF PatchInPlace
<1>13. CASE DumpConfig
  BY <1>13, Zenon DEF DumpConfig
<1>14. CASE RestoreConfig
  BY <1>14, Zenon DEF RestoreConfig
<1>15. CASE ActivateUnvalidated
  BY <1>15, Zenon DEF ActivateUnvalidated
<1>16. CASE ValidatedRestart
  BY <1>16, Zenon DEF ValidatedRestart, RestartFailed
<1>17. CASE RollbackConfig
  BY <1>17, Zenon DEF RollbackConfig
<1>18. CASE Recover
  BY <1>18, Zenon DEF Recover
<1>19. CASE CheckReadiness
  BY <1>19, Zenon DEF CheckReadiness
<1>20. CASE Annotate
  BY <1>20, Zenon DEF Annotate
<1>21. CASE LabelCaps
  BY <1>21, Zenon DEF LabelCaps
<1>22. CASE LabelReady
  <2>1. ann # 0 /\ shim /\ active = Inventory[ann] /\ (\A j \in Inventory[ann] : root[j] # Absent)
    BY <1>22 DEF LabelReady, Gen
  <2>2. UNCHANGED <<ann, shim, active, root, error>> /\ error = "none"
    BY <1>22, Zenon DEF LabelReady
  <2>3. pc' \in {"clearError", "clear"}
    BY <1>22, Zenon DEF LabelReady
  <2> QED
    BY <2>1, <2>2, <2>3, Zenon
<1>23. CASE ClearError
  BY <1>23, Zenon DEF ClearError
<1>24. CASE Sleep
  BY <1>24, Zenon DEF Sleep, vars
<1>25. CASE StartPod
  BY <1>25, Zenon DEF StartPod, FirstStep
<1>26. CASE RolloutPod
  BY <1>26, Zenon DEF RolloutPod, StopPod
<1>27. CASE KillPod
  BY <1>27, Zenon DEF KillPod, StopPod
<1>28. CASE RebootHost
  BY <1>28, Zenon DEF RebootHost
<1>29. CASE EditProfile
  BY <1>29, Zenon DEF EditProfile
<1>30. ASSUME NEW j \in Jdk, InstallJdk(j) PROVE AdvertInv'
  BY <1>30 DEF InstallJdk, KeepRoot
<1>32. CASE ClearReadLaunchers
  BY <1>32, Zenon DEF ClearReadLaunchers, ReadAnnotation
<1>33. CASE RestartService
  BY <1>33, Zenon DEF RestartService
<1>31. CASE UNCHANGED vars
  BY <1>31, Zenon DEF vars
<1> QED
  BY <1>1, <1>2, <1>3, <1>4, <1>5, <1>6, <1>7, <1>8, <1>9, <1>10, <1>11, <1>12, <1>13, <1>14, <1>15, <1>16,
     <1>17, <1>18, <1>19, <1>20, <1>21, <1>22, <1>23, <1>24, <1>25, <1>26, <1>27, <1>28, <1>29, <1>30, <1>31, <1>32, <1>33, Zenon
     DEF Next, Script

\* A node without an inventory annotation has no labels to account for.
LEMMA CapsOfZero == CapsOf(0) = {}
BY Zenon DEF CapsOf, JdkCaps, LauncherCaps

\* Every step keeps the capability labels within the annotated generation.
LEMMA CapsNext == TypeOK /\ CapsInv /\ AdvertInv /\ [Next]_vars => CapsInv'
<1> SUFFICES ASSUME TypeOK, CapsInv, AdvertInv, [Next]_vars PROVE CapsInv'
  BY Zenon
<1> USE ConstantsAssumption, AbsentAssumption, CapsOfZero DEF TypeOK, CapsInv, AdvertInv, Withdrawn, Working
<1>1. CASE ClearRead
  BY <1>1, Zenon DEF ClearRead, ReadAnnotation
<1>2. CASE ClearReady
  BY <1>2, Zenon DEF ClearReady, ClearFails
<1>3. CASE ClearCaps
  BY <1>3, Zenon DEF ClearCaps, ClearFails, OldCaps, CapsOf
<1>4. CASE ClearAnn
  BY <1>4, Zenon DEF ClearAnn, ClearFails
<1>5. CASE AnnotateError
  BY <1>5, Zenon DEF AnnotateError
<1>6. CASE InstallShim
  BY <1>6, Zenon DEF InstallShim
<1>7. CASE SwapJdk
  BY <1>7, Zenon DEF SwapJdk
<1>8. CASE WriteActiveInventory
  BY <1>8, Zenon DEF WriteActiveInventory
<1>9. CASE InstallLauncher
  BY <1>9, Zenon DEF InstallLauncher
<1>10. CASE CopyLauncher
  BY <1>10, Zenon DEF CopyLauncher
<1>11. CASE Configure
  BY <1>11, Zenon DEF Configure
<1>12. CASE PatchInPlace
  BY <1>12, Zenon DEF PatchInPlace
<1>13. CASE DumpConfig
  BY <1>13, Zenon DEF DumpConfig
<1>14. CASE RestoreConfig
  BY <1>14, Zenon DEF RestoreConfig
<1>15. CASE ActivateUnvalidated
  BY <1>15, Zenon DEF ActivateUnvalidated
<1>16. CASE ValidatedRestart
  BY <1>16, Zenon DEF ValidatedRestart, RestartFailed
<1>17. CASE RollbackConfig
  BY <1>17, Zenon DEF RollbackConfig
<1>18. CASE Recover
  BY <1>18, Zenon DEF Recover
<1>19. CASE CheckReadiness
  BY <1>19, Zenon DEF CheckReadiness
<1>20. CASE Annotate
  BY <1>20, Zenon DEF Annotate
<1>21. CASE LabelCaps
  BY <1>21, Zenon DEF LabelCaps
<1>22. CASE LabelReady
  BY <1>22, Zenon DEF LabelReady
<1>23. CASE ClearError
  BY <1>23, Zenon DEF ClearError
<1>24. CASE Sleep
  BY <1>24, Zenon DEF Sleep, vars
<1>25. CASE StartPod
  BY <1>25, Zenon DEF StartPod, FirstStep
<1>26. CASE RolloutPod
  BY <1>26, Zenon DEF RolloutPod, StopPod
<1>27. CASE KillPod
  BY <1>27, Zenon DEF KillPod, StopPod
<1>28. CASE RebootHost
  BY <1>28, Zenon DEF RebootHost
<1>29. CASE EditProfile
  BY <1>29, Zenon DEF EditProfile
<1>30. ASSUME NEW j \in Jdk, InstallJdk(j) PROVE CapsInv'
  BY <1>30 DEF InstallJdk, KeepRoot
<1>32. CASE ClearReadLaunchers
  BY <1>32, Zenon DEF ClearReadLaunchers, ReadAnnotation
<1>33. CASE RestartService
  BY <1>33, Zenon DEF RestartService
<1>31. CASE UNCHANGED vars
  BY <1>31, Zenon DEF vars
<1> QED
  BY <1>1, <1>2, <1>3, <1>4, <1>5, <1>6, <1>7, <1>8, <1>9, <1>10, <1>11, <1>12, <1>13, <1>14, <1>15, <1>16,
     <1>17, <1>18, <1>19, <1>20, <1>21, <1>22, <1>23, <1>24, <1>25, <1>26, <1>27, <1>28, <1>29, <1>30, <1>31, <1>32, <1>33, Zenon
     DEF Next, Script

\* Every step keeps the recorded mutation reversible, and reverses it before die.
LEMMA RollbackNext == TypeOK /\ RollbackInv /\ [Next]_vars => RollbackInv'
<1> SUFFICES ASSUME TypeOK, RollbackInv, [Next]_vars PROVE RollbackInv'
  BY Zenon
<1> USE ConstantsAssumption, AbsentAssumption DEF TypeOK, RollbackInv, Working, RolledBack, Conf, Block, Boot
<1>1. CASE ClearRead
  BY <1>1, Zenon DEF ClearRead, ReadAnnotation
<1>2. CASE ClearReady
  BY <1>2, Zenon DEF ClearReady, ClearFails
<1>3. CASE ClearCaps
  BY <1>3, Zenon DEF ClearCaps, ClearFails
<1>4. CASE ClearAnn
  BY <1>4, Zenon DEF ClearAnn, ClearFails
<1>5. CASE AnnotateError
  BY <1>5, Zenon DEF AnnotateError
<1>6. CASE InstallShim
  BY <1>6, Zenon DEF InstallShim
<1>7. CASE SwapJdk
  BY <1>7, Zenon DEF SwapJdk
<1>8. CASE WriteActiveInventory
  BY <1>8, Zenon DEF WriteActiveInventory
<1>9. CASE InstallLauncher
  BY <1>9, Zenon DEF InstallLauncher
<1>10. CASE CopyLauncher
  BY <1>10, Zenon DEF CopyLauncher
<1>11. CASE Configure
  BY <1>11 DEF Configure, Conf, Block
<1>12. CASE PatchInPlace
  BY <1>12, ZenonT(30) DEF PatchInPlace, Conf, Block
<1>13. CASE DumpConfig
  BY <1>13, Zenon DEF DumpConfig
<1>14. CASE RestoreConfig
  BY <1>14, Zenon DEF RestoreConfig, Conf, Block
<1>15. CASE ActivateUnvalidated
  BY <1>15, Zenon DEF ActivateUnvalidated
<1>16. CASE ValidatedRestart
  BY <1>16, Zenon DEF ValidatedRestart, RestartFailed
<1>17. CASE RollbackConfig
  BY <1>17, Zenon DEF RollbackConfig, Conf, Block
<1>18. CASE Recover
  BY <1>18, Zenon DEF Recover, Boot, Down, Conf, Block
<1>19. CASE CheckReadiness
  BY <1>19, Zenon DEF CheckReadiness
<1>20. CASE Annotate
  BY <1>20, Zenon DEF Annotate
<1>21. CASE LabelCaps
  BY <1>21, Zenon DEF LabelCaps
<1>22. CASE LabelReady
  BY <1>22, Zenon DEF LabelReady
<1>23. CASE ClearError
  BY <1>23, Zenon DEF ClearError
<1>24. CASE Sleep
  BY <1>24, Zenon DEF Sleep, vars
<1>25. CASE StartPod
  BY <1>25, Zenon DEF StartPod, FirstStep
<1>26. CASE RolloutPod
  BY <1>26, Zenon DEF RolloutPod, StopPod
<1>27. CASE KillPod
  BY <1>27, Zenon DEF KillPod, StopPod
<1>28. CASE RebootHost
  BY <1>28, Zenon DEF RebootHost
<1>29. CASE EditProfile
  BY <1>29, Zenon DEF EditProfile
<1>30. ASSUME NEW j \in Jdk, InstallJdk(j) PROVE RollbackInv'
  BY <1>30, Zenon DEF InstallJdk, KeepRoot
<1>32. CASE ClearReadLaunchers
  BY <1>32, Zenon DEF ClearReadLaunchers, ReadAnnotation
<1>33. CASE RestartService
  BY <1>33, Zenon DEF RestartService
<1>31. CASE UNCHANGED vars
  BY <1>31, Zenon DEF vars
<1> QED
  BY <1>1, <1>2, <1>3, <1>4, <1>5, <1>6, <1>7, <1>8, <1>9, <1>10, <1>11, <1>12, <1>13, <1>14, <1>15, <1>16,
     <1>17, <1>18, <1>19, <1>20, <1>21, <1>22, <1>23, <1>24, <1>25, <1>26, <1>27, <1>28, <1>29, <1>30, <1>31, <1>32, <1>33, Zenon
     DEF Next, Script

\* Every step keeps the handler live from activation to the ready label.
LEMMA ServeNext == TypeOK /\ ServeInv /\ [Next]_vars => ServeInv'
<1> SUFFICES ASSUME TypeOK, ServeInv, [Next]_vars PROVE ServeInv'
  BY Zenon
<1> USE ConstantsAssumption, AbsentAssumption DEF TypeOK, ServeInv, Installed, Working, Serves, InForce
<1>1. CASE ClearRead
  BY <1>1, Zenon DEF ClearRead, ReadAnnotation
<1>2. CASE ClearReady
  BY <1>2, Zenon DEF ClearReady, ClearFails
<1>3. CASE ClearCaps
  BY <1>3, Zenon DEF ClearCaps, ClearFails
<1>4. CASE ClearAnn
  BY <1>4, Zenon DEF ClearAnn, ClearFails
<1>5. CASE AnnotateError
  BY <1>5, Zenon DEF AnnotateError
<1>6. CASE InstallShim
  BY <1>6, Zenon DEF InstallShim
<1>7. CASE SwapJdk
  BY <1>7, Zenon DEF SwapJdk
<1>8. CASE WriteActiveInventory
  BY <1>8, Zenon DEF WriteActiveInventory
<1>9. CASE InstallLauncher
  BY <1>9, Zenon DEF InstallLauncher
<1>10. CASE CopyLauncher
  BY <1>10, Zenon DEF CopyLauncher
<1>11. CASE Configure
  BY <1>11, Zenon DEF Configure, RuntimeValid
<1>12. CASE PatchInPlace
  BY <1>12, Zenon DEF PatchInPlace
<1>13. CASE DumpConfig
  BY <1>13, Zenon DEF DumpConfig
<1>14. CASE RestoreConfig
  BY <1>14, Zenon DEF RestoreConfig
<1>15. CASE ActivateUnvalidated
  BY <1>15, Zenon DEF ActivateUnvalidated
<1>16. CASE ValidatedRestart
  BY <1>16, Zenon DEF ValidatedRestart, RestartFailed, HandlerLive
<1>17. CASE RollbackConfig
  BY <1>17, Zenon DEF RollbackConfig
<1>18. CASE Recover
  BY <1>18, Zenon DEF Recover
<1>19. CASE CheckReadiness
  BY <1>19, Zenon DEF CheckReadiness
<1>20. CASE Annotate
  BY <1>20, Zenon DEF Annotate
<1>21. CASE LabelCaps
  BY <1>21, Zenon DEF LabelCaps
<1>22. CASE LabelReady
  BY <1>22, Zenon DEF LabelReady
<1>23. CASE ClearError
  BY <1>23, Zenon DEF ClearError
<1>24. CASE Sleep
  BY <1>24, Zenon DEF Sleep, vars
<1>25. CASE StartPod
  BY <1>25, Zenon DEF StartPod, FirstStep
<1>26. CASE RolloutPod
  BY <1>26, Zenon DEF RolloutPod, StopPod
<1>27. CASE KillPod
  BY <1>27, Zenon DEF KillPod, StopPod
<1>28. CASE RebootHost
  BY <1>28, Zenon DEF RebootHost
<1>29. CASE EditProfile
  BY <1>29, Zenon DEF EditProfile
<1>30. ASSUME NEW j \in Jdk, InstallJdk(j) PROVE ServeInv'
  BY <1>30, Zenon DEF InstallJdk, KeepRoot
<1>32. CASE ClearReadLaunchers
  BY <1>32, Zenon DEF ClearReadLaunchers, ReadAnnotation
<1>33. CASE RestartService
  BY <1>33, Zenon DEF RestartService
<1>31. CASE UNCHANGED vars
  BY <1>31, Zenon DEF vars
<1> QED
  BY <1>1, <1>2, <1>3, <1>4, <1>5, <1>6, <1>7, <1>8, <1>9, <1>10, <1>11, <1>12, <1>13, <1>14, <1>15, <1>16,
     <1>17, <1>18, <1>19, <1>20, <1>21, <1>22, <1>23, <1>24, <1>25, <1>26, <1>27, <1>28, <1>29, <1>30, <1>31, <1>32, <1>33, Zenon
     DEF Next, Script

\* LauncherComplete depends on the host, the pod's profile and the launcher only.
LEMMA LauncherStays ==
  ASSUME UNCHANGED <<host, env, jaz>> PROVE LauncherComplete' <=> LauncherComplete
BY Zenon DEF LauncherComplete

\* validate_runtime establishes LauncherComplete.
LEMMA LauncherChecked ==
  ASSUME RuntimeValid, UNCHANGED <<host, env, jaz>> PROVE LauncherComplete'
BY Zenon DEF LauncherComplete, RuntimeValid, LauncherValid

\* Outside validated mode LauncherComplete asks for nothing.
LEMMA LauncherNotValidated ==
  ASSUME host.mode # "validated", UNCHANGED host PROVE LauncherComplete'
BY Zenon DEF LauncherComplete

\* Every step past the probe keeps the launcher it probed.
LEMMA LauncherNext == TypeOK /\ LauncherInv /\ [Next]_vars => LauncherInv'
<1> SUFFICES ASSUME TypeOK, LauncherInv, [Next]_vars PROVE LauncherInv'
  BY Zenon
<1> USE ConstantsAssumption, AbsentAssumption, LauncherStays, LauncherChecked, LauncherNotValidated DEF TypeOK, LauncherInv, Installed, Working
<1>1. CASE ClearRead
  BY <1>1, Zenon DEF ClearRead, ReadAnnotation
<1>2. CASE ClearReady
  BY <1>2, Zenon DEF ClearReady, ClearFails
<1>3. CASE ClearCaps
  BY <1>3, Zenon DEF ClearCaps, ClearFails
<1>4. CASE ClearAnn
  BY <1>4, Zenon DEF ClearAnn, ClearFails
<1>5. CASE AnnotateError
  BY <1>5, Zenon DEF AnnotateError
<1>6. CASE InstallShim
  BY <1>6, Zenon DEF InstallShim
<1>7. CASE SwapJdk
  BY <1>7, Zenon DEF SwapJdk
<1>8. CASE WriteActiveInventory
  BY <1>8, Zenon DEF WriteActiveInventory
<1>9. CASE InstallLauncher
  BY <1>9, Zenon DEF InstallLauncher
<1>10. CASE CopyLauncher
  BY <1>10, Zenon DEF CopyLauncher
<1>11. CASE Configure
  BY <1>11, Zenon DEF Configure
<1>12. CASE PatchInPlace
  BY <1>12, Zenon DEF PatchInPlace
<1>13. CASE DumpConfig
  BY <1>13, Zenon DEF DumpConfig
<1>14. CASE RestoreConfig
  BY <1>14, Zenon DEF RestoreConfig
<1>15. CASE ActivateUnvalidated
  BY <1>15, Zenon DEF ActivateUnvalidated
<1>16. CASE ValidatedRestart
  BY <1>16, Zenon DEF ValidatedRestart, RestartFailed
<1>17. CASE RollbackConfig
  BY <1>17, Zenon DEF RollbackConfig
<1>18. CASE Recover
  BY <1>18, Zenon DEF Recover
<1>19. CASE CheckReadiness
  BY <1>19, Zenon DEF CheckReadiness
<1>20. CASE Annotate
  BY <1>20, Zenon DEF Annotate
<1>21. CASE LabelCaps
  BY <1>21, Zenon DEF LabelCaps
<1>22. CASE LabelReady
  BY <1>22, Zenon DEF LabelReady
<1>23. CASE ClearError
  BY <1>23, Zenon DEF ClearError
<1>24. CASE Sleep
  BY <1>24, Zenon DEF Sleep, vars
<1>25. CASE StartPod
  BY <1>25, Zenon DEF StartPod, FirstStep
<1>26. CASE RolloutPod
  BY <1>26, Zenon DEF RolloutPod, StopPod
<1>27. CASE KillPod
  BY <1>27, Zenon DEF KillPod, StopPod
<1>28. CASE RebootHost
  BY <1>28, Zenon DEF RebootHost
<1>29. CASE EditProfile
  BY <1>29, Zenon DEF EditProfile
<1>30. ASSUME NEW j \in Jdk, InstallJdk(j) PROVE LauncherInv'
  BY <1>30, Zenon DEF InstallJdk, KeepRoot
<1>32. CASE ClearReadLaunchers
  BY <1>32, Zenon DEF ClearReadLaunchers, ReadAnnotation
<1>33. CASE RestartService
  BY <1>33, Zenon DEF RestartService
<1>31. CASE UNCHANGED vars
  BY <1>31, Zenon DEF vars
<1> QED
  BY <1>1, <1>2, <1>3, <1>4, <1>5, <1>6, <1>7, <1>8, <1>9, <1>10, <1>11, <1>12, <1>13, <1>14, <1>15, <1>16,
     <1>17, <1>18, <1>19, <1>20, <1>21, <1>22, <1>23, <1>24, <1>25, <1>26, <1>27, <1>28, <1>29, <1>30, <1>31, <1>32, <1>33, Zenon
     DEF Next, Script

----------------------------------------------------------------------------
\* The inductive invariant.
IInv == TypeOK /\ AdvertInv /\ CapsInv /\ RollbackInv /\ ServeInv /\ LauncherInv

\* A bare node, or one an earlier provisioner left, satisfies the invariant.
LEMMA InitIInv == Init => IInv
<1> SUFFICES ASSUME Init PROVE IInv
  BY Zenon
<1> USE ConstantsAssumption DEF Init
<1>1. TypeOK
  <2>1. shim \in BOOLEAN /\ bak \in BOOLEAN /\ ready \in BOOLEAN /\ misread \in BOOLEAN
    BY Zenon
  <2>2. conf \in Conf /\ live \in Conf /\ found \in Conf
    BY Zenon
  <2> QED
    BY <2>1, <2>2 DEF TypeOK, Label, Reason, Gen
<1>2. AdvertInv
  BY Zenon DEF AdvertInv, ReadyMatchesInventory, ReadyExcludesError, Withdrawn, Installed, Working
<1>3. CapsInv
  BY Zenon DEF CapsInv, Withdrawn, Working
<1>4. RollbackInv /\ ServeInv /\ LauncherInv
  BY Zenon DEF RollbackInv, ServeInv, LauncherInv, Installed, Working
<1> QED
  BY <1>1, <1>2, <1>3, <1>4, Zenon DEF IInv

\* Every step keeps the invariant.
LEMMA NextIInv == IInv /\ [Next]_vars => IInv'
BY TypeNext, AdvertNext, CapsNext, RollbackNext, ServeNext, LauncherNext, Zenon DEF IInv

\* The invariant holds throughout.
LEMMA Invariance == Spec => []IInv
BY InitIInv, NextIInv, PTL DEF Spec

\* Every variable of the node and of the script keeps its type.
THEOREM TypeCorrect == Spec => []TypeOK
BY Invariance, PTL DEF IInv

\* A node labelled ready has the shim and every JDK of its inventory annotation,
\* whatever failed, crashed or was rebooted: main withdraws the label first and
\* label_node sets it last.
THEOREM ReadyNodeHasInventory == Spec => []ReadyMatchesInventory
<1>1. IInv => ReadyMatchesInventory
  BY Zenon DEF IInv, AdvertInv
<1> QED
  BY <1>1, Invariance, PTL

\* A node is never labelled ready with an error annotation: die clears the label
\* before it annotates, and main clears the annotation before it labels.
THEOREM ReadyNodeHasNoError == Spec => []ReadyExcludesError
<1>1. IInv => ReadyExcludesError
  BY Zenon DEF IInv, AdvertInv
<1> QED
  BY <1>1, Invariance, PTL

\* No capability label outlives the inventory annotation that lists it, unless
\* clear_node_advertisement failed to read that annotation.
THEOREM CapabilityLabelsCovered == Spec => []CapsCovered
<1>1. IInv => CapsCovered
  BY Zenon DEF IInv, CapsInv, CapsCovered
<1> QED
  BY <1>1, Invariance, PTL

\* A run that reports a rejected configuration or a rollback has put back the
\* configuration it found (rollback_containerd_config, configure_containerd_validated).
THEOREM FailureRollsBack == Spec => []RollbackRestores
<1>1. IInv => RollbackRestores
  BY Zenon DEF IInv, RollbackInv, RollbackRestores
<1> QED
  BY <1>1, Invariance, PTL

\* label_node is the only code that sets the ready label.
LEMMA OnlyLabelReadyAdds == [Next]_vars /\ ~ready /\ ready' => LabelReady
BY Zenon DEF Next, Script, vars, ClearRead, ClearReadLaunchers, ClearReady, ClearCaps, ClearAnn, AnnotateError,
       InstallShim, InstallJdk, SwapJdk, WriteActiveInventory, InstallLauncher, CopyLauncher,
       Configure, PatchInPlace, DumpConfig, RestoreConfig, ActivateUnvalidated,
       ValidatedRestart, RollbackConfig, Recover, CheckReadiness, Annotate, LabelCaps,
       ClearError, Sleep, StartPod, RolloutPod, KillPod, StopPod, RebootHost, RestartService, EditProfile

\* In validated mode the ready label is set only while containerd runs, serves the
\* handler from its live configuration and has the launcher the profile asks for.
THEOREM ReadyOnlyWhenServing == Spec => ReadyWhenServing
<1>1. ASSUME IInv, [Next]_vars, ~ready, ready', host.mode = "validated"
      PROVE  /\ live # Down /\ Serves(live)
             /\ host.validate /\ WantsJaz[ann] => jaz = "installed"
  <2>1. LabelReady
    BY <1>1, OnlyLabelReadyAdds, Zenon
  <2>2. pc = "labelReady" /\ ann = env
    BY <1>1, <2>1, Zenon DEF LabelReady, IInv, AdvertInv
  <2>3. live # Down /\ Serves(live)
    BY <1>1, <2>2, Zenon DEF IInv, ServeInv
  <2>4. LauncherComplete
    BY <1>1, <2>2, Zenon DEF IInv, LauncherInv, Installed, Working
  <2> QED
    BY <1>1, <2>2, <2>3, <2>4, Zenon DEF LauncherComplete
<1> QED
  BY <1>1, Invariance, PTL DEF Spec, ReadyWhenServing

\* A script that ends while it fetches a JDK or a launcher, other than through die,
\* leaves a node that is neither ready nor marked failed: the pulls of
\* jdk_from_image and install_launcher fail under `set -e`, which records nothing,
\* where die's comment has the reason of a fatal error on the Node.
THEOREM PullFailsSilently ==
    Spec => [][((\E j \in Jdk : InstallJdk(j)) \/ InstallLauncher \/ CopyLauncher) /\ pc' = "exited"
                 => ~ready' /\ error' = "none"]_vars
<1>1. ASSUME IInv, (\E j \in Jdk : InstallJdk(j)) \/ InstallLauncher \/ CopyLauncher
      PROVE  ~ready' /\ error' = "none"
  <2>1. pc \in {"jdk", "launcher", "copyJaz"} /\ UNCHANGED <<ready, error>>
    BY <1>1, Zenon DEF InstallJdk, InstallLauncher, CopyLauncher
  <2> QED
    BY <1>1, <2>1, Zenon DEF IInv, AdvertInv, Withdrawn, Working
<1> QED
  BY <1>1, Invariance, PTL

----------------------------------------------------------------------------
(* Cleanup, beside a provisioner that keeps sleeping.                      *)

\* What the cleanup script has reversed by each of its stages: from a stage on,
\* its part of the provisioning is gone.
Reversed ==
    /\ cpc # "exited" /\ caps \subseteq CapsOf(specGen)
    /\ cpc \in {"restart", "removeShim", "unannotate", "unready", "uncaps", "idle"} /\ host.mode = "validated"
         => conf = Clean
    /\ cpc \in {"removeShim", "unannotate", "unready", "uncaps", "idle"} /\ host.mode = "validated"
         => live = Clean
    /\ cpc \in {"unannotate", "unready", "uncaps", "idle"} => ~shim
    /\ cpc \in {"unready", "uncaps", "idle"} => ann = 0 /\ error = "none"
    /\ cpc \in {"uncaps", "idle"} => ~ready
    /\ cpc = "idle" => caps = {}

\* A sleeping provisioner has annotated the generation it ran for.
SleeperInv == pc \in {"clearError", "idle"} => ann = env

\* Until the cleanup pod starts, the provisioner's own invariant holds; from then
\* on, the generation is fixed and the script reverses stage by stage, unless a
\* command fails or the provisioner moves.
CleanInv ==
    /\ specGen \in Gen /\ faults \in Nat
    /\ misread => faults # 0
    /\ cpc # "absent" \/ ~finalizer => deleting
    /\ cpc = "absent" => TypeOK /\ AdvertInv /\ CapsInv /\ SleeperInv
    /\ cpc \notin {"absent", "stopped"} /\ pc = "idle" /\ ~overlap /\ faults = 0 /\ env = specGen => Reversed

\* Every step keeps the annotation of a script that is done.
LEMMA SleeperNext ==
    ASSUME SleeperInv, AdvertInv, [Next]_vars
    PROVE  SleeperInv'
<1> USE DEF SleeperInv
<1>1. CASE ClearRead \/ ClearReadLaunchers \/ ClearReady \/ ClearCaps \/ ClearAnn \/ AnnotateError
  BY <1>1, Zenon DEF ClearRead, ClearReadLaunchers, ClearReady, ClearCaps, ClearAnn, AnnotateError, ClearFails
<1>2. CASE InstallShim \/ (\E j \in Jdk : InstallJdk(j)) \/ SwapJdk \/ WriteActiveInventory
  BY <1>2, Zenon DEF InstallShim, InstallJdk, SwapJdk, WriteActiveInventory
<1>3. CASE InstallLauncher \/ CopyLauncher \/ Configure \/ PatchInPlace \/ DumpConfig \/ RestoreConfig
  BY <1>3, Zenon DEF InstallLauncher, CopyLauncher, Configure, PatchInPlace, DumpConfig, RestoreConfig
<1>4. CASE ActivateUnvalidated \/ ValidatedRestart \/ RollbackConfig \/ Recover \/ CheckReadiness
  BY <1>4, Zenon DEF ActivateUnvalidated, ValidatedRestart, RestartFailed, RollbackConfig, Recover, CheckReadiness
<1>5. CASE Annotate \/ LabelCaps \/ LabelReady \/ ClearError
  BY <1>5, Zenon DEF Annotate, LabelCaps, LabelReady, ClearError, AdvertInv
<1>6. CASE Sleep \/ StartPod \/ RolloutPod \/ KillPod \/ RebootHost \/ RestartService \/ EditProfile \/ UNCHANGED vars
  BY <1>6, Zenon DEF Sleep, StartPod, FirstStep, RolloutPod, KillPod, StopPod, RebootHost, RestartService, EditProfile, vars
<1> QED
  BY <1>1, <1>2, <1>3, <1>4, <1>5, <1>6, Zenon DEF Next, Script

\* Commands that fail are only ever added up.
LEMMA FaultsGrow ==
    ASSUME faults \in Nat, misread => faults # 0, Next
    PROVE  faults' \in Nat /\ (misread' => faults' # 0) /\ (faults' = 0 => faults = 0)
<1>1. CASE ClearRead
  BY <1>1 DEF ClearRead, ReadAnnotation, ClearFails
<1>2. CASE ClearReady
  BY <1>2 DEF ClearReady, ClearFails
<1>3. CASE ClearCaps
  BY <1>3 DEF ClearCaps, ClearFails
<1>4. CASE ClearAnn
  BY <1>4 DEF ClearAnn, ClearFails
<1>5. CASE AnnotateError
  BY <1>5 DEF AnnotateError
<1>6. CASE InstallShim
  BY <1>6 DEF InstallShim
<1>7. CASE \E j \in Jdk : InstallJdk(j)
  BY <1>7 DEF InstallJdk
<1>8. CASE SwapJdk
  BY <1>8 DEF SwapJdk
<1>9. CASE WriteActiveInventory
  BY <1>9, Zenon DEF WriteActiveInventory
<1>10. CASE InstallLauncher
  BY <1>10 DEF InstallLauncher
<1>11. CASE CopyLauncher
  BY <1>11 DEF CopyLauncher
<1>12. CASE Configure
  BY <1>12, Zenon DEF Configure
<1>13. CASE PatchInPlace
  BY <1>13, Zenon DEF PatchInPlace
<1>14. CASE DumpConfig
  BY <1>14 DEF DumpConfig
<1>15. CASE RestoreConfig
  BY <1>15 DEF RestoreConfig
<1>16. CASE ActivateUnvalidated
  BY <1>16, Zenon DEF ActivateUnvalidated
<1>17. CASE ValidatedRestart
  BY <1>17 DEF ValidatedRestart
<1>18. CASE RollbackConfig
  BY <1>18 DEF RollbackConfig
<1>19. CASE Recover
  BY <1>19 DEF Recover
<1>20. CASE CheckReadiness
  BY <1>20, Zenon DEF CheckReadiness
<1>21. CASE Annotate
  BY <1>21 DEF Annotate
<1>22. CASE LabelCaps
  BY <1>22 DEF LabelCaps
<1>23. CASE LabelReady
  BY <1>23 DEF LabelReady
<1>24. CASE ClearError
  BY <1>24 DEF ClearError
<1>25. CASE Sleep
  BY <1>25, Zenon DEF Sleep, vars
<1>26. CASE StartPod
  BY <1>26, Zenon DEF StartPod
<1>27. CASE RolloutPod
  BY <1>27, Zenon DEF RolloutPod, StopPod
<1>28. CASE KillPod
  BY <1>28, Zenon DEF KillPod, StopPod
<1>29. CASE RebootHost
  BY <1>29, Zenon DEF RebootHost
<1>31. CASE ClearReadLaunchers
  BY <1>31 DEF ClearReadLaunchers, ReadAnnotation
<1>32. CASE RestartService
  BY <1>32, Zenon DEF RestartService
<1>30. CASE EditProfile
  BY <1>30, Zenon DEF EditProfile
<1> QED
  BY <1>1, <1>2, <1>3, <1>4, <1>5, <1>6, <1>7, <1>8, <1>9, <1>10, <1>11, <1>12, <1>13, <1>14, <1>15,
     <1>16, <1>17, <1>18, <1>19, <1>20, <1>21, <1>22, <1>23, <1>24, <1>25, <1>26, <1>27, <1>28, <1>29, <1>30, <1>31, <1>32, Zenon DEF Next, Script

\* The start: no profile is deleted and the provisioner has not run.
LEMMA CleanInit == CleanupInit => CleanInv
<1> SUFFICES ASSUME CleanupInit PROVE CleanInv
  BY Zenon
<1>1. TypeOK /\ AdvertInv /\ CapsInv
  BY InitIInv, Zenon DEF CleanupInit, IInv
<1>2. specGen \in Gen /\ faults = 0 /\ misread = FALSE /\ finalizer = TRUE /\ cpc = "absent" /\ pc = "exited"
  BY ConstantsAssumption DEF CleanupInit, Init, Gen
<1> QED
  BY <1>1, <1>2, Zenon DEF CleanInv, SleeperInv

\* The provisioner's steps: before the cleanup pod starts they keep its
\* invariant, and afterwards they count as an overlap.
LEMMA ProvisioningKeeps == CleanInv /\ Provisioning => CleanInv'
<1> SUFFICES ASSUME CleanInv, Provisioning PROVE CleanInv'
  BY Zenon
<1>1. Next /\ UNCHANGED <<specGen, deleting, finalizer, cpc>> /\ overlap' = (overlap \/ cpc \notin {"absent", "stopped"})
  BY Zenon DEF Provisioning, Next
<1>2. faults' \in Nat /\ (misread' => faults' # 0)
  BY <1>1, FaultsGrow, Zenon DEF CleanInv
<1>3. CASE cpc = "absent"
  <2>1. TypeOK' /\ AdvertInv' /\ CapsInv' /\ SleeperInv'
    BY <1>1, <1>3, TypeNext, AdvertNext, CapsNext, SleeperNext, Zenon DEF CleanInv
  <2> QED
    BY <1>1, <1>2, <1>3, <2>1, Zenon DEF CleanInv
<1>4. CASE cpc # "absent"
  BY <1>1, <1>2, <1>4, Zenon DEF CleanInv
<1> QED
  BY <1>3, <1>4, Zenon

\* A clean configuration comes up as it is.
LEMMA CleanBoots == Boot(Clean) = Clean
BY Zenon DEF Boot, Clean, InForce

\* Each command of the cleanup script reverses its part, or fails and counts.
LEMMA CleanupScriptKeeps == CleanInv /\ CleanupScript => CleanInv'
<1> SUFFICES ASSUME CleanInv, CleanupScript PROVE CleanInv'
  BY Zenon
<1> USE DEF CleanInv, Reversed, CAt, CGoto
<1>1. CASE CleanupUnpatch
  BY <1>1, Zenon DEF CleanupUnpatch, Unpatched
<1>2. CASE CleanupRestart
  <2>1. CASE Works /\ CGoto("removeShim")
    <3>1. host.mode = "validated" /\ conf = Clean => live' = Clean
      BY <1>2, <2>1, CleanBoots, Zenon DEF CleanupRestart
    <3> QED
      BY <1>2, <2>1, <3>1, Zenon DEF CleanupRestart
  <2>2. CASE Fails /\ CGoto("exited")
    BY <1>2, <2>2 DEF CleanupRestart
  <2> QED
    BY <1>2, <2>1, <2>2, Zenon DEF CleanupRestart
<1>3. CASE RemoveShim
  BY <1>3, Zenon DEF RemoveShim
<1>4. CASE Unannotate
  BY <1>4 DEF Unannotate
<1>5. CASE Unready
  BY <1>5 DEF Unready
<1>6. CASE Uncaps
  BY <1>6 DEF Uncaps, ProfileCaps
<1> QED
  BY <1>1, <1>2, <1>3, <1>4, <1>5, <1>6, Zenon DEF CleanupScript

\* The cleanup pod starts beside a node whose labels are those of the annotated
\* generation.
LEMMA StartCleanupKeeps == CleanInv /\ StartCleanup => CleanInv'
<1> SUFFICES ASSUME CleanInv, StartCleanup PROVE CleanInv'
  BY Zenon
<1> USE DEF CleanInv, CGoto, StartCleanup, vars
<1>1. ASSUME cpc = "absent", pc = "idle", faults = 0, env = specGen PROVE caps \subseteq CapsOf(specGen)
  BY <1>1, Zenon DEF CapsInv, SleeperInv
<1> QED
  BY <1>1, Zenon DEF Reversed

\* The operator's steps: the generation moves only while the profile lives, and a
\* pod that is stopped is no longer idle.
LEMMA OperatorKeeps ==
    ASSUME CleanInv,
           \/ EditSpec \/ ReconcileDaemonSet \/ DeleteProfile \/ ReleaseFinalizer
           \/ StopCleanupPod \/ StopProvisionerPod \/ RecoverService \/ Stopped \/ UNCHANGED allVars
    PROVE  CleanInv'
<1> USE DEF CleanInv
<1>1. CASE EditSpec
  <2>1. cpc = "absent" /\ specGen' \in Gen /\ UNCHANGED <<vars, deleting, finalizer, cpc>>
    BY <1>1, ConstantsAssumption DEF EditSpec, Gen
  <2>2. TypeOK' /\ AdvertInv' /\ CapsInv' /\ SleeperInv'
    BY <2>1, TypeNext, AdvertNext, CapsNext, SleeperNext, Zenon
  <2> QED
    BY <2>1, <2>2, Zenon DEF vars
<1>2. CASE ReconcileDaemonSet
  <2>1. cpc = "absent" /\ desired' \in Gen
    BY <1>2, Zenon DEF ReconcileDaemonSet
  <2>2. TypeOK'
    BY <1>2, <2>1 DEF ReconcileDaemonSet, TypeOK
  <2>3. SleeperInv'
    BY <1>2, <2>1, Zenon DEF ReconcileDaemonSet, SleeperInv
  <2>4. AdvertInv'
    BY <1>2, <2>1, Zenon DEF ReconcileDaemonSet, AdvertInv, ReadyMatchesInventory, ReadyExcludesError
  <2>5. CapsInv'
    BY <1>2, <2>1, Zenon DEF ReconcileDaemonSet, CapsInv
  <2> QED
    BY <1>2, <2>1, <2>2, <2>3, <2>4, <2>5, Zenon DEF ReconcileDaemonSet, cleanupVars
<1>3. CASE DeleteProfile \/ ReleaseFinalizer \/ StopCleanupPod \/ Stopped \/ UNCHANGED allVars
  <2>1. UNCHANGED <<vars, specGen, overlap>> /\ (cpc' = cpc \/ cpc' = "stopped")
    BY <1>3, Zenon DEF DeleteProfile, ReleaseFinalizer, StopCleanupPod, CGoto, Stopped, allVars, cleanupVars
  <2>2. cpc' = "absent" => TypeOK' /\ AdvertInv' /\ CapsInv' /\ SleeperInv'
    BY <2>1, TypeNext, AdvertNext, CapsNext, SleeperNext, Zenon
  <2>3. cpc' # "absent" \/ ~finalizer' => deleting'
    BY <1>3, Zenon DEF DeleteProfile, ReleaseFinalizer, StopCleanupPod, CGoto, Stopped, allVars, cleanupVars
  <2>4. cpc' = cpc /\ Reversed => Reversed'
    BY <2>1, Zenon DEF Reversed, vars
  <2> QED
    BY <2>1, <2>2, <2>3, <2>4, Zenon DEF vars
<1>4. CASE StopProvisionerPod
  <2>1. pc' = "exited" /\ UNCHANGED <<specGen, deleting, finalizer, cpc, faults, misread>>
    BY <1>4, Zenon DEF StopProvisionerPod, StopPod, cleanupVars
  <2>2. cpc = "absent" => TypeOK'
    BY <1>4, <2>1, Zenon DEF StopProvisionerPod, StopPod, TypeOK, Label
  <2>3. cpc = "absent" => SleeperInv'
    BY <1>4, <2>1, Zenon DEF StopProvisionerPod, StopPod, SleeperInv
  <2>4. cpc = "absent" => AdvertInv'
    BY <1>4, <2>1, Zenon DEF StopProvisionerPod, StopPod, AdvertInv, ReadyMatchesInventory, ReadyExcludesError,
                      Withdrawn, Installed, Working
  <2>5. cpc = "absent" => CapsInv'
    BY <1>4, <2>1 DEF StopProvisionerPod, StopPod, CapsInv, Withdrawn, Working
  <2> QED
    BY <2>1, <2>2, <2>3, <2>4, <2>5, Zenon
<1>5. CASE RecoverService
  <2>1. Next /\ live = Down /\ UNCHANGED <<shim, root, active, jaz, conf, bak, nodeVars, podVars, host, faults, misread, cleanupVars>>
    BY <1>5, Zenon DEF RecoverService, RestartService, Next
  <2>2. cpc = "absent" => TypeOK' /\ AdvertInv' /\ CapsInv' /\ SleeperInv'
    BY <2>1, TypeNext, AdvertNext, CapsNext, SleeperNext, Zenon
  <2>3. live # Clean
    BY <2>1 DEF Clean, Down
  <2>4. Reversed => Reversed'
    BY <2>1, <2>3, Zenon DEF Reversed, cleanupVars
  <2> QED
    BY <2>1, <2>2, <2>4, Zenon DEF cleanupVars
<1> QED
  BY <1>1, <1>2, <1>3, <1>4, <1>5, Zenon

\* Every step of the deletion keeps the invariant.
LEMMA CleanNext == CleanInv /\ [CleanupNext]_allVars => CleanInv'
BY ProvisioningKeeps, CleanupScriptKeeps, StartCleanupKeeps, OperatorKeeps, Zenon DEF CleanupNext

\* Deleting a profile reverses its provisioning for every inventory, host and
\* history: a cleanup script that reached its idle loop without a failed command,
\* beside a provisioner that slept and had run for the deleted generation, has
\* left no label, annotation, shim or containerd block behind.
THEOREM CleanupSound == CleanupSpec => []CleanupReverses
<1>1. CleanupInit => CleanInv
  BY CleanInit, Zenon
<1>2. CleanInv /\ [CleanupNext]_allVars => CleanInv'
  BY CleanNext, Zenon
<1>3. CleanInv => CleanupReverses
  BY Zenon DEF CleanInv, Reversed, CleanupReverses, Bare, CAt
<1> QED
  BY <1>1, <1>2, <1>3, PTL DEF CleanupSpec
=============================================================================
