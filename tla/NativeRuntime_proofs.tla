------------------------- MODULE NativeRuntime_proofs -------------------------
(***************************************************************************)
(* Proofs about NativeRuntime, for any networks, servers, executions and   *)
(* deaths.                                                                 *)
(***************************************************************************)
EXTENDS NativeRuntime, TLAPS

-----------------------------------------------------------------------------
\* Type correctness, and where a call can be in each stage of its sandbox.

\* There is a call exactly when some server makes it, and it waits for an
\* execution exactly when it has asked for one.
CallInv ==
    /\ by = Nobody <=> at = "idle"
    /\ run = NoRun <=> at \notin WaitPlaces
    /\ run # NoRun => exec[run] # "none"

\* Only create works on a sandbox that is being built, nobody on one that is
\* gone, and neither has processes.
StageInv ==
    /\ stage = "building" => at \in {"idle"} \cup CreatePlaces \cup SealPlaces
    /\ stage = "removed" => at = "idle"
    /\ at \in CreatePlaces => stage = "building"
    /\ stage # "ready" => Running = {} /\ strays = {}

TypeInv == TypeOK /\ CallInv /\ StageInv

LEMMA CreateTyped == TypeInv /\ CreateStep => TypeInv'
<1> SUFFICES ASSUME TypeInv, CreateStep PROVE TypeInv'
    OBVIOUS
<1> USE NamesAssumption DEF TypeInv, TypeOK, CallInv, StageInv, Places, killVars,
        CreatePlaces, SealPlaces, InstallPlaces, WaitPlaces
<1>1. CASE SetUp
    BY <1>1 DEF SetUp, Goto, Running, sandboxVars, execVars, checkVars
<1>2. CASE Provision
    BY <1>2 DEF Provision, Goto, Running, sandboxVars, execVars, checkVars
<1>3. CASE CreateStepFails
    BY <1>3 DEF CreateStepFails, Goto, Running, sandboxVars, execVars, checkVars
<1>4. CASE Cleanup
    BY <1>4 DEF Cleanup, RemoveContainer, StopAll, Done, Running,
                sandboxVars, execVars, checkVars
<1> QED BY <1>1, <1>2, <1>3, <1>4 DEF CreateStep

LEMMA SealTyped == TypeInv /\ SealStep => TypeInv'
<1> SUFFICES ASSUME TypeInv, SealStep PROVE TypeInv'
    OBVIOUS
<1> USE NamesAssumption DEF TypeInv, TypeOK, CallInv, StageInv, Places, killVars,
        CreatePlaces, SealPlaces, InstallPlaces, WaitPlaces
<1>1. CASE ListAttached
    BY <1>1 DEF ListAttached, Running, sandboxVars, execVars, checkVars
<1>2. ASSUME NEW n \in Networks, Detach(n) PROVE TypeInv'
    BY <1>2 DEF Detach, Running, execVars, checkVars
<1>3. CASE Detached
    BY <1>3 DEF Detached, Goto, Running, sandboxVars, execVars, checkVars
<1>4. CASE SealAgain
    BY <1>4 DEF SealAgain, Running, execVars, checkVars
<1>5. CASE SealFails
    BY <1>5 DEF SealFails, Goto, Done, Running, execVars, checkVars
<1>6. CASE ProbesPass
    BY <1>6 DEF ProbesPass, Goto, Done, Running, execVars, checkVars
<1>7. CASE Leak
    BY <1>7 DEF Leak, Goto, Running, sandboxVars, execVars, checkVars
<1> QED BY <1>1, <1>2, <1>3, <1>4, <1>5, <1>6, <1>7 DEF SealStep

LEMMA InstallTyped == TypeInv /\ InstallStep => TypeInv'
<1> SUFFICES ASSUME TypeInv, InstallStep PROVE TypeInv'
    OBVIOUS
<1> USE NamesAssumption DEF TypeInv, TypeOK, CallInv, StageInv, Places, killVars,
        CreatePlaces, SealPlaces, InstallPlaces, WaitPlaces
<1>1. ASSUME NEW n \in Networks, Unseal(n) PROVE TypeInv'
    BY <1>1 DEF Unseal, Goto, Running, execVars, checkVars
<1>2. CASE InstallFails
    BY <1>2 DEF InstallFails, Running, execVars, checkVars
<1>3. CASE Installed
    BY <1>3 DEF Installed, Goto, Running, sandboxVars, execVars, checkVars
<1>4. CASE RemoveLeaking
    BY <1>4 DEF RemoveLeaking, RemoveContainer, StopAll, Done, Running,
                sandboxVars, execVars, checkVars
<1> QED BY <1>1, <1>2, <1>3, <1>4 DEF InstallStep

LEMMA LaunchTyped ==
    ASSUME TypeInv, NEW r \in Runs, NEW k \in {"canary", "code"},
           at \in {"verify", "launch"}, Launch(r, k),
           verified' = verified \/ verified' = verified \cup {by}
    PROVE  TypeInv'
BY NamesAssumption
DEF TypeInv, TypeOK, CallInv, StageInv, Places, CreatePlaces, SealPlaces,
    InstallPlaces, WaitPlaces, Launch, Running, sandboxVars, killVars

LEMMA RunTyped == TypeInv /\ (RunStep \/ RunErrs) => TypeInv'
<1> SUFFICES ASSUME TypeInv, RunStep \/ RunErrs PROVE TypeInv'
    OBVIOUS
<1> USE NamesAssumption DEF TypeInv, TypeOK, CallInv, StageInv, Places, killVars,
        CreatePlaces, SealPlaces, InstallPlaces, WaitPlaces
<1>1. ASSUME NEW r \in Runs, LaunchCanary(r) \/ LaunchCode(r) PROVE TypeInv'
    BY <1>1, LaunchTyped DEF LaunchCanary, LaunchCode
<1>2. CASE LaunchFails
    BY <1>2 DEF LaunchFails, Done, Running, sandboxVars, execVars, checkVars
<1>3. CASE CodeReturns \/ RunErrs \/ KillFails \/ RestartFails
    BY <1>3 DEF CodeReturns, RunErrs, KillFails, RestartFails, Over, Done,
                Running, sandboxVars, execVars
<1>4. CASE CanaryReturns
    BY <1>4 DEF CanaryReturns, Onward, Running, sandboxVars, execVars
<1>5. CASE Deadline \/ FoundSome
    BY <1>5 DEF Deadline, FoundSome, Goto, Running, sandboxVars, execVars, checkVars
<1>6. CASE Kill
    BY <1>6 DEF Kill, Goto, Running, sandboxVars, checkVars
<1>7. CASE FoundNone
    BY <1>7 DEF FoundNone, Over, Done, Running, sandboxVars, execVars
<1>8. CASE Restart
    BY <1>8 DEF Restart, StopAll, Over, Done, Running, sandboxVars
<1> QED BY <1>1, <1>2, <1>3, <1>4, <1>5, <1>6, <1>7, <1>8 DEF RunStep

LEMMA BackgroundTyped == TypeInv /\ BackgroundStep => TypeInv'
<1> SUFFICES ASSUME TypeInv, BackgroundStep PROVE TypeInv'
    OBVIOUS
<1> USE NamesAssumption DEF TypeInv, TypeOK, CallInv, StageInv, Places, killVars,
        CreatePlaces, SealPlaces, InstallPlaces, WaitPlaces
<1>1. ASSUME NEW r \in Runs, LaunchDaemon(r) PROVE TypeInv'
    BY <1>1 DEF LaunchDaemon, Done, Running, sandboxVars, checkVars
<1>2. CASE LaunchDaemonFails
    BY <1>2 DEF LaunchDaemonFails, Done, Running, sandboxVars, execVars, checkVars
<1> QED BY <1>1, <1>2 DEF BackgroundStep

\* What clients ask for, and the death of a server.
LEMMA RequestTyped ==
    ASSUME TypeInv, NEW s \in Servers,
           \/ AskRun(s, TRUE) \/ AskRun(s, FALSE) \/ AskBackground(s)
           \/ Destroy(s) \/ Crash(s)
    PROVE  TypeInv'
<1> USE NamesAssumption DEF TypeInv, TypeOK, CallInv, StageInv, Places, killVars,
        CreatePlaces, SealPlaces, InstallPlaces, WaitPlaces
<1>1. CASE AskRun(s, TRUE) \/ AskRun(s, FALSE)
    BY <1>1 DEF AskRun, Enter, Onward, Running, sandboxVars, execVars, checkVars
<1>2. CASE AskBackground(s)
    BY <1>2 DEF AskBackground, Enter, Running, sandboxVars, execVars, checkVars
<1>3. CASE Destroy(s)
    BY <1>3 DEF Destroy, RemoveContainer, StopAll, Running, callVars
<1>4. CASE Crash(s)
    <2>1. crashes' \in 0..MaxCrashes
        BY <1>4, CrashesAssumption DEF Crash
    <2>2. CASE by = s
        BY <1>4, <2>1, <2>2 DEF Crash, Done, Running, sandboxVars, execVars
    <2>3. CASE by # s
        BY <1>4, <2>1, <2>3 DEF Crash, Running, callVars, sandboxVars, execVars
    <2> QED BY <2>2, <2>3
<1> QED BY <1>1, <1>2, <1>3, <1>4

LEMMA ProcessTyped ==
    ASSUME TypeInv, NEW r \in Runs, ProcessStep(r)
    PROVE  TypeInv'
BY NamesAssumption
DEF TypeInv, TypeOK, CallInv, StageInv, Places, CreatePlaces, SealPlaces,
    InstallPlaces, WaitPlaces, ProcessStep, EngineStarts, Exits, Strays,
    StrayExits, Becomes, Running,
    sandboxVars, callVars, checkVars, killVars

LEMMA TypeInit == Init => TypeInv
<1> SUFFICES ASSUME Init PROVE TypeInv
    OBVIOUS
<1>1. nets \in SUBSET Networks
    BY DEF Init
<1>2. crashes \in 0..MaxCrashes
    BY CrashesAssumption DEF Init
<1> QED
    BY <1>1, <1>2, NamesAssumption
    DEF Init, TypeInv, TypeOK, CallInv, StageInv, Places, CreatePlaces,
        SealPlaces, InstallPlaces, WaitPlaces, Running

LEMMA TypeStep == TypeInv /\ [Next]_vars => TypeInv'
<1> SUFFICES ASSUME TypeInv, [Next]_vars PROVE TypeInv'
    OBVIOUS
<1>1. CASE UNCHANGED vars
    BY <1>1 DEF TypeInv, TypeOK, CallInv, StageInv, Running, vars, sandboxVars,
                execVars, callVars, checkVars, killVars
<1>2. CASE CallStep \/ RunErrs
    BY <1>2, CreateTyped, SealTyped, RunTyped, InstallTyped, BackgroundTyped
    DEF CallStep
<1> QED BY <1>1, <1>2, RequestTyped, ProcessTyped DEF Next

\* THEOREM TypesHold: every variable keeps its type, there is a call exactly
\* when a server makes one, and a container that is not ready has no processes.
THEOREM TypesHold == Spec => [](TypeOK /\ CallInv /\ StageInv)
<1>1. TypeInv => TypeOK /\ CallInv /\ StageInv
    BY DEF TypeInv
<1> QED BY <1>1, TypeInit, TypeStep, PTL DEF Spec

-----------------------------------------------------------------------------
\* Sealing.

\* A sandbox handed back has no network outside an install's window, unless a
\* seal has lapsed; and after it was handed back only an install works on its
\* networks.
SealInv ==
    /\ stage = "ready" => nets = {} \/ InstallWindow \/ lapsed
    /\ stage = "ready" /\ at \in SealPlaces \cup InstallPlaces => libs

NetsInv == TypeInv /\ SealInv /\ ResealProven

\* Steps of a create, and what a seal does after it.
LEMMA CreateSeals ==
    NetsInv /\ "blindProbe" \notin Allow /\ (CreateStep \/ SealStep)
        => SealInv' /\ ResealProven'
<1> SUFFICES ASSUME NetsInv, "blindProbe" \notin Allow, CreateStep \/ SealStep
             PROVE  SealInv' /\ ResealProven'
    OBVIOUS
<1> USE NamesAssumption DEF NetsInv, TypeInv, TypeOK, CallInv, StageInv, SealInv,
        InstallWindow, ResealProven, CreatePlaces, SealPlaces, InstallPlaces,
        WaitPlaces
<1>1. CASE SetUp \/ Provision \/ CreateStepFails
    BY <1>1 DEF SetUp, Provision, CreateStepFails, Goto, sandboxVars, execVars
<1>2. CASE Cleanup
    BY <1>2 DEF Cleanup, RemoveContainer, Done, sandboxVars, execVars
<1>3. CASE ListAttached \/ SealAgain \/ \E n \in Networks : Detach(n)
    BY <1>3 DEF ListAttached, SealAgain, Detach, sandboxVars, execVars
<1>4. CASE Detached \/ Leak
    BY <1>4 DEF Detached, Leak, Goto, sandboxVars, execVars
<1>5. CASE SealFails
    BY <1>5 DEF SealFails, Goto, Done, execVars
<1>6. CASE ProbesPass
    BY <1>6 DEF ProbesPass, Goto, Done, execVars
<1> QED BY <1>1, <1>2, <1>3, <1>4, <1>5, <1>6 DEF CreateStep, SealStep

\* Steps of a run, of an install and of a background run.
LEMMA RunSeals ==
    NetsInv /\ (RunStep \/ RunErrs \/ InstallStep \/ BackgroundStep)
        => SealInv' /\ ResealProven'
<1> SUFFICES ASSUME NetsInv, RunStep \/ RunErrs \/ InstallStep \/ BackgroundStep
             PROVE  SealInv' /\ ResealProven'
    OBVIOUS
<1> USE NamesAssumption DEF NetsInv, TypeInv, TypeOK, CallInv, StageInv, SealInv,
        InstallWindow, ResealProven, CreatePlaces, SealPlaces, InstallPlaces,
        WaitPlaces
<1>1. ASSUME NEW r \in Runs, LaunchCanary(r) \/ LaunchCode(r)
      PROVE  SealInv' /\ ResealProven'
    BY <1>1 DEF LaunchCanary, LaunchCode, Launch, sandboxVars
<1>2. CASE \/ LaunchFails \/ CodeReturns \/ RunErrs \/ KillFails \/ FoundNone
           \/ Restart \/ RestartFails
    BY <1>2 DEF LaunchFails, CodeReturns, RunErrs, KillFails, FoundNone, Restart,
                RestartFails, Over, Done, sandboxVars
<1>3. CASE CanaryReturns
    BY <1>3 DEF CanaryReturns, Onward, sandboxVars
<1>4. CASE Deadline \/ Kill \/ FoundSome
    BY <1>4 DEF Deadline, Kill, FoundSome, Goto, sandboxVars, execVars
<1>5. CASE InstallFails \/ Installed \/ \E n \in Networks : Unseal(n)
    BY <1>5 DEF InstallFails, Installed, Unseal, Goto, sandboxVars, execVars
<1>6. CASE RemoveLeaking
    BY <1>6 DEF RemoveLeaking, RemoveContainer, Done, sandboxVars, execVars
<1>7. CASE LaunchDaemonFails \/ \E r \in Runs : LaunchDaemon(r)
    BY <1>7 DEF LaunchDaemonFails, LaunchDaemon, Done, sandboxVars
<1> QED BY <1>1, <1>2, <1>3, <1>4, <1>5, <1>6, <1>7
        DEF RunStep, InstallStep, BackgroundStep

LEMMA RequestSeals ==
    ASSUME NetsInv, NEW s \in Servers,
           \/ AskRun(s, TRUE) \/ AskRun(s, FALSE) \/ AskBackground(s)
           \/ Destroy(s) \/ Crash(s)
    PROVE  SealInv' /\ ResealProven'
<1> USE NamesAssumption DEF NetsInv, TypeInv, TypeOK, CallInv, StageInv, SealInv,
        InstallWindow, ResealProven, CreatePlaces, SealPlaces, InstallPlaces,
        WaitPlaces
<1>1. CASE AskRun(s, TRUE) \/ AskRun(s, FALSE)
    BY <1>1 DEF AskRun, Enter, Onward, sandboxVars, execVars
<1>2. CASE AskBackground(s)
    BY <1>2 DEF AskBackground, Enter, sandboxVars, execVars
<1>3. CASE Destroy(s)
    BY <1>3 DEF Destroy, RemoveContainer, callVars
<1>4. CASE Crash(s)
    BY <1>4 DEF Crash, Done, callVars, sandboxVars, execVars
<1> QED BY <1>1, <1>2, <1>3, <1>4

LEMMA SealHeld ==
    "blindProbe" \notin Allow /\ NetsInv /\ [Next]_vars => SealInv' /\ ResealProven'
<1> SUFFICES ASSUME "blindProbe" \notin Allow, NetsInv, [Next]_vars
             PROVE  SealInv' /\ ResealProven'
    OBVIOUS
<1>1. CASE UNCHANGED vars
    BY <1>1 DEF NetsInv, SealInv, InstallWindow, ResealProven, vars, sandboxVars,
                execVars, callVars
<1>2. ASSUME NEW r \in Runs, ProcessStep(r)
      PROVE  SealInv' /\ ResealProven'
    BY <1>2 DEF NetsInv, SealInv, InstallWindow, ResealProven, ProcessStep,
                EngineStarts, Exits, Strays, StrayExits, Becomes,
                sandboxVars, callVars
<1>3. CASE CallStep \/ RunErrs
    BY <1>3, CreateSeals, RunSeals DEF CallStep
<1> QED BY <1>1, <1>2, <1>3, RequestSeals DEF Next

LEMMA NetsSafe == "blindProbe" \notin Allow /\ Spec => []NetsInv
<1> SUFFICES ASSUME "blindProbe" \notin Allow PROVE Spec => []NetsInv
    OBVIOUS
<1>1. Init => NetsInv
    BY TypeInit DEF Init, NetsInv, SealInv, ResealProven
<1>2. NetsInv /\ [Next]_vars => NetsInv'
    BY SealHeld, TypeStep DEF NetsInv
<1> QED BY <1>1, <1>2, PTL DEF Spec

\* THEOREM Sealed: submitted code runs in a container with a network only while
\* an install has it open or after that install's seal, its removal or its server
\* has failed and no later seal is proven, whichever step of a create, a seal, a
\* retry or a run fails, as long as a probe can reach what is reachable.
THEOREM Sealed == "blindProbe" \notin Allow /\ Spec => []SealedOutsideInstall
<1>1. NetsInv => SealedOutsideInstall
    BY DEF NetsInv, TypeInv, StageInv, TypeOK, SealInv, SealedOutsideInstall,
           CodeIsSealed, Submitted
<1> QED BY <1>1, NetsSafe, PTL

\* THEOREM Resealed: a call that installs libraries runs its code sealed.
THEOREM Resealed == "blindProbe" \notin Allow /\ Spec => []ResealProven
<1>1. NetsInv => ResealProven
    BY DEF NetsInv
<1> QED BY <1>1, NetsSafe, PTL

-----------------------------------------------------------------------------
\* Killing.

\* What was reported as killed after a look that could find it has ended.
KillInv == TypeInv /\ \A r \in claimed \ unseen : exec[r] = "ended"

LEMMA KillStep == KillInv /\ [Next]_vars => KillInv'
<1> SUFFICES ASSUME KillInv, [Next]_vars PROVE KillInv'
    OBVIOUS
<1>0. TypeInv'
    BY TypeStep DEF KillInv
<1> USE <1>0, NamesAssumption DEF KillInv, TypeInv, TypeOK, CallInv, CreatePlaces,
        SealPlaces, InstallPlaces, WaitPlaces, Running, killVars
<1>1. CASE UNCHANGED vars
    BY <1>1 DEF vars, execVars, callVars
<1>2. CASE CreateStep
    BY <1>2 DEF CreateStep, SetUp, Provision, CreateStepFails, Cleanup, Goto, Done,
                RemoveContainer, StopAll, execVars
<1>3. CASE SealStep
    BY <1>3 DEF SealStep, ListAttached, Detach, Detached, SealAgain, SealFails,
                ProbesPass, Leak, Goto, Done, execVars
<1>4. CASE InstallStep
    BY <1>4 DEF InstallStep, Unseal, InstallFails, Installed, RemoveLeaking, Goto,
                Done, RemoveContainer, StopAll, execVars
<1>5. CASE BackgroundStep
    BY <1>5 DEF BackgroundStep, LaunchDaemon, LaunchDaemonFails, Done, execVars
<1>6. ASSUME NEW r \in Runs, LaunchCanary(r) \/ LaunchCode(r)
      PROVE  KillInv'
    BY <1>6 DEF LaunchCanary, LaunchCode, Launch
<1>7. CASE LaunchFails \/ CodeReturns \/ RunErrs \/ KillFails \/ RestartFails
    BY <1>7 DEF LaunchFails, CodeReturns, RunErrs, KillFails, RestartFails, Over,
                Done, execVars
<1>8. CASE CanaryReturns
    BY <1>8 DEF CanaryReturns, Onward, execVars
<1>9. CASE Deadline \/ Kill \/ FoundSome
    BY <1>9 DEF Deadline, Kill, FoundSome, Goto, execVars
<1>10. CASE FoundNone
    BY <1>10 DEF FoundNone, Survivors, Over, Done, execVars
<1>11. CASE Restart
    BY <1>11 DEF Restart, StopAll, Over, Done
<1>12. ASSUME NEW s \in Servers, AskRun(s, TRUE) \/ AskRun(s, FALSE)
       PROVE  KillInv'
    BY <1>12 DEF AskRun, Enter, Onward, execVars
<1>13. ASSUME NEW s \in Servers, AskBackground(s) PROVE KillInv'
    BY <1>13 DEF AskBackground, Enter, execVars
<1>14. ASSUME NEW s \in Servers, Destroy(s) PROVE KillInv'
    BY <1>14 DEF Destroy, RemoveContainer, StopAll, callVars
<1>15. ASSUME NEW s \in Servers, Crash(s) PROVE KillInv'
    BY <1>15 DEF Crash, Done, callVars, execVars
<1>16. ASSUME NEW r \in Runs, ProcessStep(r)
       PROVE  KillInv'
    BY <1>16 DEF ProcessStep, EngineStarts, Exits, Strays, StrayExits, Becomes,
                 callVars
<1> QED
    BY <1>1, <1>2, <1>3, <1>4, <1>5, <1>6, <1>7, <1>8, <1>9, <1>10, <1>11, <1>12,
       <1>13, <1>14, <1>15, <1>16
    DEF Next, CallStep, RunStep

\* THEOREM Killed: a run reported as killed has no process under its command
\* line and never will have one, except one that had not been started when the
\* check looked, or whose check could not look.
THEOREM Killed == Spec => []KilledIsGone
<1>1. Init => KillInv
    BY TypeInit DEF Init, KillInv
<1>2. KillInv => KilledIsGone
    BY DEF KillInv, KilledIsGone, Running
<1> QED BY <1>1, <1>2, KillStep, PTL DEF Spec

-----------------------------------------------------------------------------
\* The canary.

MarkInv == TypeInv /\ MarkedIsProven

LEMMA MarkStep == MarkInv /\ [Next]_vars => MarkInv'
<1> SUFFICES ASSUME MarkInv, [Next]_vars PROVE MarkInv'
    OBVIOUS
<1>0. TypeInv'
    BY TypeStep DEF MarkInv
<1> USE <1>0, NamesAssumption DEF MarkInv, MarkedIsProven, TypeInv, TypeOK, CallInv,
        CreatePlaces, SealPlaces, InstallPlaces, WaitPlaces
<1>1. CASE UNCHANGED vars
    BY <1>1 DEF vars, execVars, callVars, checkVars
<1>2. CASE CreateStep
    BY <1>2 DEF CreateStep, SetUp, Provision, CreateStepFails, Cleanup, Goto, Done,
                RemoveContainer, execVars, checkVars
<1>3. CASE SealStep
    BY <1>3 DEF SealStep, ListAttached, Detach, Detached, SealAgain, SealFails,
                ProbesPass, Leak, Goto, Done, execVars, checkVars
<1>4. CASE InstallStep
    BY <1>4 DEF InstallStep, Unseal, InstallFails, Installed, RemoveLeaking, Goto,
                Done, RemoveContainer, execVars, checkVars
<1>5. CASE BackgroundStep
    BY <1>5 DEF BackgroundStep, LaunchDaemon, LaunchDaemonFails, Done, checkVars
<1>6. ASSUME NEW r \in Runs, LaunchCanary(r) PROVE MarkInv'
    BY <1>6 DEF LaunchCanary, Launch
<1>7. ASSUME NEW r \in Runs, LaunchCode(r) PROVE MarkInv'
    BY <1>7 DEF LaunchCode, Launch
<1>8. CASE LaunchFails
    BY <1>8 DEF LaunchFails, Done, checkVars
<1>9. CASE \/ CodeReturns \/ RunErrs \/ KillFails \/ RestartFails \/ FoundNone
           \/ Restart
    BY <1>9 DEF CodeReturns, RunErrs, KillFails, RestartFails, FoundNone, Restart,
                Over, Done, execVars
<1>10. CASE CanaryReturns
    BY <1>10 DEF CanaryReturns, execVars
<1>11. CASE Deadline \/ Kill \/ FoundSome
    BY <1>11 DEF Deadline, Kill, FoundSome, Goto, execVars, checkVars
<1>12. ASSUME NEW s \in Servers,
              AskRun(s, TRUE) \/ AskRun(s, FALSE) \/ AskBackground(s)
       PROVE  MarkInv'
    BY <1>12 DEF AskRun, AskBackground, Enter, execVars, checkVars
<1>13. ASSUME NEW s \in Servers, Destroy(s) PROVE MarkInv'
    BY <1>13 DEF Destroy, RemoveContainer, callVars
<1>14. ASSUME NEW s \in Servers, Crash(s) PROVE MarkInv'
    BY <1>14 DEF Crash, Done, callVars, execVars
<1>15. ASSUME NEW r \in Runs, ProcessStep(r)
       PROVE  MarkInv'
    BY <1>15 DEF ProcessStep, EngineStarts, Exits, Strays, StrayExits, Becomes,
                 callVars, checkVars
<1> QED
    BY <1>1, <1>2, <1>3, <1>4, <1>5, <1>6, <1>7, <1>8, <1>9, <1>10, <1>11, <1>12,
       <1>13, <1>14, <1>15
    DEF Next, CallStep, RunStep

\* THEOREM Marked: a server that skips the canary has seen its output, although
\* it sets its mark before the canary runs.
THEOREM Marked == Spec => []MarkedIsProven
<1>1. Init => MarkInv
    BY TypeInit DEF Init, MarkInv, MarkedIsProven
<1>2. MarkInv => MarkedIsProven
    BY DEF MarkInv
<1> QED BY <1>1, <1>2, MarkStep, PTL DEF Spec

-----------------------------------------------------------------------------
\* Sealed for good, when nobody asks for libraries.

\* Whatever attaches a network to a sandbox handed back, or leaves one attached,
\* is a call that was given libraries.
LEMMA OpenedByLibraries ==
    "blindProbe" \notin Allow /\ Spec => [](libs \/ lapsed => "libraries" \in Allow)
<1> SUFFICES ASSUME "blindProbe" \notin Allow
             PROVE  Spec => [](libs \/ lapsed => "libraries" \in Allow)
    OBVIOUS
<1> DEFINE Asked == libs \/ lapsed => "libraries" \in Allow
<1>1. Init => Asked
    BY DEF Init
<1>2. NetsInv /\ Asked /\ [Next]_vars => Asked'
    <2> SUFFICES ASSUME NetsInv, Asked, [Next]_vars PROVE Asked'
        OBVIOUS
    <2>1. CASE UNCHANGED vars
        BY <2>1 DEF vars, callVars
    <2>2. CASE CreateStep
        BY <2>2 DEF CreateStep, SetUp, Provision, CreateStepFails, Cleanup,
                    Goto, Done
    <2>3. CASE SealStep
        BY <2>3 DEF NetsInv, TypeInv, TypeOK, StageInv, SealInv, SealPlaces,
            CreatePlaces, InstallPlaces, SealStep, ListAttached, Detach, Detached,
            SealAgain, SealFails, ProbesPass, Leak, Goto, Done
    <2>4. CASE InstallStep \/ BackgroundStep
        BY <2>4 DEF NetsInv, TypeInv, TypeOK, StageInv, SealInv, InstallPlaces,
            CreatePlaces, SealPlaces, InstallStep, Unseal, InstallFails, Installed,
            RemoveLeaking, BackgroundStep, LaunchDaemon, LaunchDaemonFails,
            Goto, Done
    <2>5. CASE RunStep \/ RunErrs
        BY <2>5
        DEF RunStep, LaunchCanary, LaunchCode, Launch, LaunchFails, CodeReturns,
            CanaryReturns, Deadline, Kill, KillFails, FoundNone, FoundSome, Restart,
            RestartFails, RunErrs, Over, Goto, Done
    <2>6. ASSUME NEW s \in Servers,
                 \/ AskRun(s, TRUE) \/ AskRun(s, FALSE) \/ AskBackground(s)
                 \/ Destroy(s) \/ Crash(s)
          PROVE  Asked'
        BY <2>6 DEF AskRun, AskBackground, Enter, Destroy, Crash, InstallWindow,
                    Done, callVars
    <2>7. ASSUME NEW r \in Runs, ProcessStep(r)
          PROVE  Asked'
        BY <2>7 DEF ProcessStep, EngineStarts, Exits, Strays, StrayExits,
                    Becomes, callVars
    <2> QED BY <2>1, <2>2, <2>3, <2>4, <2>5, <2>6, <2>7 DEF Next, CallStep
<1> QED BY <1>1, <1>2, NetsSafe, PTL DEF Spec

\* THEOREM SealedForGood: where no client passes run(libraries=...), code never
\* runs in a container that has a network, as long as a probe can reach what is
\* reachable: no timeout, retry, failure or death of a server opens it.
THEOREM SealedForGood ==
    {"blindProbe", "libraries"} \cap Allow = {} /\ Spec => []CodeIsSealed
<1> SUFFICES ASSUME {"blindProbe", "libraries"} \cap Allow = {}
             PROVE  Spec => []CodeIsSealed
    OBVIOUS
<1>1. "blindProbe" \notin Allow /\ "libraries" \notin Allow
    OBVIOUS
<1>2. SealedOutsideInstall /\ (libs \/ lapsed => "libraries" \in Allow)
        => CodeIsSealed
    BY <1>1 DEF SealedOutsideInstall, InstallWindow
<1> QED BY <1>1, <1>2, Sealed, OpenedByLibraries, PTL

-----------------------------------------------------------------------------
\* A call takes a bounded number of steps: the safety half of CallsEnd.

\* Places a call can still pass through, at most: the canary, the install, a
\* sealing that is listed twice, the probes, the code and the kill.
PlacesLeft ==
    CASE at = "setup" -> 17
      [] at = "provision" -> 16
      [] at = "verify" -> 16
      [] at = "waiting" /\ kind[run] = "canary" -> 15
      [] at = "unsealing" -> 14
      [] at = "installing" -> 13
      [] at = "listing" /\ ~again -> 12
      [] at = "detaching" /\ ~again -> 11
      [] at = "listing" /\ again -> 10
      [] at = "detaching" /\ again -> 9
      [] at = "probing" -> 8
      [] at \in {"launch", "launchDaemon"} -> 7
      [] at = "waiting" /\ kind[run] # "canary" -> 6
      [] at = "killing" -> 5
      [] at = "checking" -> 4
      [] at = "restarting" -> 3
      [] at \in {"cleanup", "leaked"} -> 1
      [] at = "idle" -> 0

\* The call is at a later place, or has fewer networks to detach at this one.
Nearer ==
    \/ PlacesLeft' < PlacesLeft
    \/ PlacesLeft' = PlacesLeft /\ todo' # todo /\ todo' \subseteq todo

LEMMA PlacesCounted == TypeInv => PlacesLeft \in 0..17
BY DEF TypeInv, TypeOK, Places, CreatePlaces, SealPlaces, InstallPlaces, WaitPlaces,
       PlacesLeft

\* Ending a call is always nearer, from any place where there is one.
LEMMA DoneNearer ==
    ASSUME TypeInv, at # "idle", Done
    PROVE  Nearer
BY DEF TypeInv, TypeOK, Places, CreatePlaces, SealPlaces, InstallPlaces, WaitPlaces,
       Done, Nearer, PlacesLeft

LEMMA GotoNearer ==
    ASSUME TypeInv, NEW place \in Places, Goto(place),
           \/ at = "setup" /\ place \in {"provision", "cleanup"}
           \/ at = "provision" /\ place \in {"listing", "cleanup"}
           \/ at = "installing" /\ place = "listing"
           \/ at \in {"listing", "detaching"} /\ place \in {"probing", "cleanup"}
           \/ at = "probing" /\ place \in {"cleanup", "leaked", "launch"}
           \/ at = "unsealing" /\ place = "installing"
           \/ at = "waiting" /\ place = "killing"
           \/ at = "killing" /\ place = "checking"
           \/ at = "checking" /\ place = "restarting"
    PROVE  Nearer
BY DEF Goto, Nearer, PlacesLeft, TypeInv, TypeOK

LEMMA CreateNearer == TypeInv /\ (CreateStep \/ SealStep) => Nearer
<1> SUFFICES ASSUME TypeInv, CreateStep \/ SealStep PROVE Nearer
    OBVIOUS
<1> USE DEF Places, CreatePlaces, SealPlaces, InstallPlaces, WaitPlaces
<1>1. CASE SetUp \/ Provision \/ CreateStepFails
    BY <1>1, GotoNearer DEF SetUp, Provision, CreateStepFails
<1>2. CASE Cleanup
    BY <1>2, DoneNearer DEF Cleanup
<1>3. CASE ListAttached \/ SealAgain
    BY <1>3 DEF ListAttached, SealAgain, Nearer, PlacesLeft, TypeInv, TypeOK
<1>4. ASSUME NEW n \in Networks, Detach(n) PROVE Nearer
    <2>1. todo' # todo /\ todo' \subseteq todo
        BY <1>4 DEF Detach
    <2>2. PlacesLeft' = PlacesLeft
        BY <1>4 DEF Detach, PlacesLeft
    <2> QED BY <2>1, <2>2 DEF Nearer
<1>5. CASE Detached \/ Leak
    BY <1>5, GotoNearer DEF Detached, Leak
<1>6. CASE SealFails
    BY <1>6, GotoNearer, DoneNearer DEF SealFails
<1>7. CASE ProbesPass
    BY <1>7, GotoNearer, DoneNearer DEF ProbesPass
<1> QED BY <1>1, <1>2, <1>3, <1>4, <1>5, <1>6, <1>7 DEF CreateStep, SealStep

LEMMA RunNearer ==
    TypeInv /\ (RunStep \/ RunErrs \/ InstallStep \/ BackgroundStep) => Nearer
<1> SUFFICES ASSUME TypeInv, RunStep \/ RunErrs \/ InstallStep \/ BackgroundStep
             PROVE  Nearer
    OBVIOUS
<1> USE DEF Places, CreatePlaces, SealPlaces, InstallPlaces, WaitPlaces
<1>1. ASSUME NEW r \in Runs, LaunchCanary(r) \/ LaunchCode(r) PROVE Nearer
    BY <1>1 DEF LaunchCanary, LaunchCode, Launch, Nearer, PlacesLeft,
                TypeInv, TypeOK
<1>2. CASE \/ LaunchFails \/ CodeReturns \/ RunErrs \/ KillFails \/ FoundNone
           \/ Restart \/ RestartFails \/ RemoveLeaking
           \/ LaunchDaemonFails \/ \E r \in Runs : LaunchDaemon(r)
    BY <1>2, DoneNearer
    DEF LaunchFails, CodeReturns, RunErrs, KillFails, FoundNone, Restart,
        RestartFails, RemoveLeaking, LaunchDaemonFails, LaunchDaemon, Over
<1>3. CASE CanaryReturns
    BY <1>3 DEF CanaryReturns, Onward, Nearer, PlacesLeft, TypeInv, TypeOK
<1>4. CASE Deadline \/ Kill \/ FoundSome \/ Installed
    BY <1>4, GotoNearer DEF Deadline, Kill, FoundSome, Installed
<1>5. ASSUME NEW n \in Networks, Unseal(n) PROVE Nearer
    BY <1>5, GotoNearer DEF Unseal
<1>6. CASE InstallFails
    BY <1>6 DEF InstallFails, Nearer, PlacesLeft, TypeInv, TypeOK
<1> QED BY <1>1, <1>2, <1>3, <1>4, <1>5, <1>6
        DEF RunStep, InstallStep, BackgroundStep

\* What other servers, the engine and the processes in the container do.
LEMMA OthersKeepPlace ==
    ASSUME TypeInv, by # Nobody,
           \/ UNCHANGED vars
           \/ \E s \in Servers :
                 \/ AskRun(s, TRUE) \/ AskRun(s, FALSE) \/ AskBackground(s)
                 \/ Destroy(s) \/ Crash(s)
           \/ \E r \in Runs : ProcessStep(r)
    PROVE  Nearer \/ UNCHANGED <<callVars, PlacesLeft>>
<1>1. CASE UNCHANGED vars
    BY <1>1 DEF vars, callVars, execVars, PlacesLeft
<1>2. ASSUME NEW s \in Servers,
             \/ AskRun(s, TRUE) \/ AskRun(s, FALSE) \/ AskBackground(s)
             \/ Destroy(s)
      PROVE  FALSE
    BY <1>2 DEF AskRun, AskBackground, Enter, Destroy
<1>3. ASSUME NEW s \in Servers, Crash(s)
      PROVE  Nearer \/ UNCHANGED <<callVars, PlacesLeft>>
    <2>1. CASE by = s
        BY <1>3, <2>1, DoneNearer DEF Crash, TypeInv, CallInv
    <2>2. CASE by # s
        <3>1. UNCHANGED callVars /\ UNCHANGED execVars
            BY <1>3, <2>2 DEF Crash
        <3> QED BY <3>1 DEF callVars, execVars, PlacesLeft
    <2> QED BY <2>1, <2>2
<1>4. ASSUME NEW r \in Runs, ProcessStep(r)
      PROVE  UNCHANGED <<callVars, PlacesLeft>>
    <2>1. UNCHANGED callVars /\ UNCHANGED kind
        BY <1>4 DEF ProcessStep, EngineStarts, Exits, Strays, StrayExits, Becomes
    <2> QED BY <2>1 DEF callVars, PlacesLeft
<1> QED BY <1>1, <1>2, <1>3, <1>4

\* THEOREM CallsAdvance: every step of a call takes it to a later place or takes
\* a network off the list it has to detach, and nothing else moves it except by
\* ending it, so that a call that is given steps comes to its end: no canary, no
\* retry of the sealing, no kill and no restart sends it back.
THEOREM CallsAdvance ==
    Spec => /\ [](PlacesLeft \in 0..17)
            /\ [][/\ CallStep => Nearer
                  /\ by # Nobody => Nearer \/ UNCHANGED <<callVars, PlacesLeft>>]_vars
<1> DEFINE Advance ==
        /\ CallStep => Nearer
        /\ by # Nobody => Nearer \/ UNCHANGED <<callVars, PlacesLeft>>
<1>1. TypeInv /\ [Next]_vars => Advance
    <2> SUFFICES ASSUME TypeInv, [Next]_vars PROVE Advance
        OBVIOUS
    <2>1. CallStep \/ RunErrs => Nearer
        BY CreateNearer, RunNearer DEF CallStep
    <2> QED BY <2>1, OthersKeepPlace DEF Next
<1>2. TypeInv /\ [Next]_vars => [Advance]_vars
    BY <1>1
<1>3. TypeInv => PlacesLeft \in 0..17
    BY PlacesCounted
<1> QED BY <1>2, <1>3, TypeInit, TypeStep, PTL DEF Spec
==============================================================================
