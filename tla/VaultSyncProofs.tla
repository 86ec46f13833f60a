---------------------------- MODULE VaultSyncProofs ----------------------------
(***************************************************************************)
(* Proofs about VaultSync, for any number of devices, edits and concurrent *)
(* calls.  The inductive invariant is SyncInv.  One lemma per action shows *)
(* that the action keeps it, one step per conjunct; the theorems follow.   *)
(***************************************************************************)
EXTENDS VaultSync, TLAPS

\* No logout begins or ends in the step.
SameLogouts ==
    \A g \in Frames : /\ call'[g].op = "logout" <=> call[g].op = "logout"
                      /\ call[g].op = "logout" => /\ call'[g].dev = call[g].dev
                                                 /\ call'[g].stage = call[g].stage

\* A database that is closed after the step was so before, and its device gained nothing;
\* none is opened while logout waits for its deletion.
ClosedShrinks ==
    \A d \in Devices :
        /\ ~open'[d] => /\ ~open[d] /\ local'[d] \subseteq local[d]
                        /\ keys'[d] => keys[d]
                        /\ creds'[d] => creds[d]
                        /\ owed'[d] \subseteq owed[d]
        /\ open'[d] => open[d] \/ ~LoggingOut(d)

\* What most steps do: they leave the logouts alone, and closed databases closed.
LEMMA ClosedStaysClosed ==
    ASSUME SyncInv, SameLogouts, ClosedShrinks
    PROVE  NothingAfterLogout' /\ ClosedOwesNothing' /\ LogoutOnlyCloses'
<1>1. ASSUME NEW d \in Devices PROVE LoggingOut(d)' <=> LoggingOut(d)
  BY DEF SameLogouts, LoggingOut, Running, InFrame
<1>2. NothingAfterLogout'
  BY <1>1 DEF SyncInv, NothingAfterLogout, ClosedShrinks
<1>3. ClosedOwesNothing'
  BY <1>1 DEF SyncInv, ClosedOwesNothing, ClosedShrinks
<1>4. LogoutOnlyCloses'
  BY DEF SyncInv, LogoutOnlyCloses, SameLogouts, InFrame
<1> QED BY <1>2, <1>3, <1>4

\* An answer of the server moves one frame to another stage, or ends it when its
\* tab is gone, and starts no call.
LEMMA AnswerMovesOneFrame ==
    ASSUME TypeOK, NEW f \in Frames, NEW stage \in Stages, NEW tag \in Nat,
           call[f].op # "logout", Answer(f, stage, tag)
    PROVE  /\ call' \in [Frames -> Call]
           /\ \A g \in Frames : call'[g].op # "none" =>
                  call[g].op # "none" /\ call'[g].dev = call[g].dev
           /\ \A d \in Devices : \A g \in Running(d)' :
                  /\ g \in Running(d)
                  /\ call'[g] = IF g = f THEN Moved(f, stage, call[f].snap,
                      tag) ELSE call[g]
           /\ SameLogouts
<1>1. CASE call[f].op = "orphan"
  <2>1. call' = [call EXCEPT ![f] = Idle]
    BY <1>1 DEF Answer, Return, InFrame
  <2>2. Idle \in Call
    BY DEF Idle, Call, Ops, Stages
  <2>3. call' \in [Frames -> Call]
    BY <2>1, <2>2 DEF TypeOK
  <2>4. call'[f] = Idle /\ \A g \in Frames : g # f => call'[g] = call[g]
    BY <2>1 DEF TypeOK
  <2>5. ASSUME NEW d \in Devices, NEW g \in Running(d)' PROVE g # f /\ g \in Running(d)
    BY <2>4, ConstantsAssumption DEF Running, Idle, InFrame
  <2>6. SameLogouts
    BY <1>1, <2>4 DEF SameLogouts, Idle
  <2> QED BY <2>3, <2>4, <2>5, <2>6 DEF Idle, Running
<1>2. CASE call[f].op # "orphan"
  <2>1. call' = [call EXCEPT ![f] = Moved(f, stage, call[f].snap, tag)]
    BY <1>2 DEF Answer, InFrame
  <2>2. Moved(f, stage, call[f].snap, tag) \in Call
    BY DEF Moved, Call, TypeOK
  <2>3. call' \in [Frames -> Call]
    BY <2>1, <2>2 DEF TypeOK
  <2>4. /\ call'[f] = Moved(f, stage, call[f].snap, tag)
        /\ \A g \in Frames : g # f => call'[g] = call[g]
    BY <2>1 DEF TypeOK
  <2>5. ASSUME NEW d \in Devices, NEW g \in Running(d)' PROVE g \in Running(d)
    BY <2>4 DEF Running, Moved, InFrame
  <2>6. SameLogouts
    BY <2>4 DEF SameLogouts, Moved
  <2> QED BY <2>3, <2>4, <2>5, <2>6 DEF Moved, Running
<1> QED BY <1>1, <1>2

\* An edit becomes owed only when it sets the marker and nothing is in progress.
LEMMA EditKeepsInv ==
    ASSUME SyncInv, NEW d \in Devices, NEW e \in Edits, Edit(d, e)
    PROVE  SyncInv'
<1> USE ConstantsAssumption DEF disk, session, history, bounds, InFrame, At
<1>1. TypeOK'
  BY DEF Edit, Quiet, TypeOK, Stages, SyncInv
<1>2. CallsHaveDevice'
  BY DEF Edit, Quiet, CallsHaveDevice, SyncInv
<1>3. OwedIsKept'
  BY DEF Edit, Quiet, OwedIsKept, CallsCarryOwed, Carries, TypeOK, SyncInv
<1>4. CallsCarryOwed'
  BY DEF Edit, Quiet, CallsCarryOwed, Carries, OwedIsKept, Running, SyncInv
<1>5. OneSettingsCall'
  BY DEF Edit, Quiet, OneSettingsCall, SettingsOps, Running, SyncInv
<1>6. SwitchStoresKeys'
  BY DEF Edit, Quiet, SwitchStoresKeys, OneSettingsCall, SettingsOps, Running, SyncInv
<1>7. NothingAfterLogout' /\ ClosedOwesNothing' /\ LogoutOnlyCloses'
  <2>1. SameLogouts
    BY DEF Edit, Quiet, SameLogouts, Idle, TypeOK, LogoutOnlyCloses, SyncInv
  <2>2. ClosedShrinks
    BY DEF Edit, Quiet, ClosedShrinks, LoggingOut, SettingsBusy, SettingsOps,
        ClosedOwesNothing, SwitchStoresKeys, Running, TypeOK, SyncInv
  <2> QED BY <2>1, <2>2, ClosedStaysClosed
<1>8. CredentialsArePersisted'
  BY DEF Edit, Quiet, CredentialsArePersisted, SwitchStoresKeys, NothingAfterLogout,
      SyncInv
<1> QED BY <1>1, <1>2, <1>3, <1>4, <1>5, <1>6, <1>7, <1>8 DEF SyncInv

\* An edit that schedules no push is owed by nobody.
LEMMA EditUnscheduledKeepsInv ==
    ASSUME SyncInv, NEW d \in Devices, NEW e \in Edits, EditUnscheduled(d, e)
    PROVE  SyncInv'
<1> USE ConstantsAssumption DEF disk, session, history, bounds, InFrame, At
<1>1. TypeOK'
  BY DEF EditUnscheduled, TypeOK, SyncInv
<1>2. CallsHaveDevice'
  BY DEF EditUnscheduled, CallsHaveDevice, SyncInv
<1>3. OwedIsKept'
  BY DEF EditUnscheduled, OwedIsKept, CallsCarryOwed, Carries, SyncInv
<1>4. CallsCarryOwed'
  BY DEF EditUnscheduled, CallsCarryOwed, Carries, OwedIsKept, Running, SyncInv
<1>5. OneSettingsCall'
  BY DEF EditUnscheduled, OneSettingsCall, SettingsOps, Running, SyncInv
<1>6. SwitchStoresKeys'
  BY DEF EditUnscheduled, SwitchStoresKeys, OneSettingsCall, SettingsOps, Running,
      SyncInv
<1>7. NothingAfterLogout' /\ ClosedOwesNothing' /\ LogoutOnlyCloses'
  <2>1. SameLogouts
    BY DEF EditUnscheduled, SameLogouts, Idle, TypeOK, LogoutOnlyCloses, SyncInv
  <2>2. ClosedShrinks
    BY DEF EditUnscheduled, ClosedShrinks, LoggingOut, SettingsBusy, SettingsOps,
        ClosedOwesNothing, SwitchStoresKeys, Running, TypeOK, SyncInv
  <2> QED BY <2>1, <2>2, ClosedStaysClosed
<1>8. CredentialsArePersisted'
  BY DEF EditUnscheduled, CredentialsArePersisted, SwitchStoresKeys,
      NothingAfterLogout, SyncInv
<1> QED BY <1>1, <1>2, <1>3, <1>4, <1>5, <1>6, <1>7, <1>8 DEF SyncInv

\* A push scheduled late sets the marker and owes nothing new.
LEMMA ScheduleLateKeepsInv ==
    ASSUME SyncInv, NEW d \in Devices, ScheduleLate(d)
    PROVE  SyncInv'
<1> USE ConstantsAssumption DEF disk, session, history, bounds, InFrame, At
<1>1. TypeOK'
  BY DEF ScheduleLate, TypeOK, SyncInv
<1>2. CallsHaveDevice' /\ OwedIsKept' /\ CredentialsArePersisted'
  BY DEF ScheduleLate, CallsHaveDevice, OwedIsKept, CredentialsArePersisted, TypeOK, SyncInv
<1>3. CallsCarryOwed' /\ OneSettingsCall' /\ SwitchStoresKeys'
  BY DEF ScheduleLate, CallsCarryOwed, Carries, OneSettingsCall, SwitchStoresKeys,
      Running, SyncInv
<1>4. NothingAfterLogout' /\ ClosedOwesNothing' /\ LogoutOnlyCloses'
  <2>1. SameLogouts /\ ClosedShrinks
    BY DEF ScheduleLate, SameLogouts, ClosedShrinks, SyncInv
  <2> QED BY <2>1, ClosedStaysClosed
<1> QED BY <1>1, <1>2, <1>3, <1>4 DEF SyncInv

\* A push uploads the whole database, so it carries every owed edit.
LEMMA TimerFiresKeepsInv ==
    ASSUME SyncInv, NEW d \in Devices, NEW f \in Frames, TimerFires(d, f)
    PROVE  SyncInv'
<1> USE ConstantsAssumption DEF disk, session, history, bounds, InFrame, At
<1>1. TypeOK'
  BY DEF TimerFires, Begin, Upload, Put, TypeOK, Call, Ops, Stages, SyncInv
<1>2. CallsHaveDevice'
  <2>1. CASE creds[d]
    BY <2>1 DEF TimerFires, Begin, Upload, Put, CallsHaveDevice, TypeOK, SyncInv
  <2>2. CASE ~creds[d]
    BY <2>2 DEF TimerFires, Begin, Upload, Put, CallsHaveDevice, SyncInv
  <2> QED BY <2>1, <2>2
<1>3. OwedIsKept'
  BY DEF TimerFires, Begin, Upload, Put, OwedIsKept, CallsCarryOwed, Carries, SyncInv
<1>4. CallsCarryOwed'
  <2>1. CASE creds[d]
    BY SMTT(30), <2>1 DEF TimerFires, Begin, Upload, Put, CallsCarryOwed, Carries, OwedIsKept, TypeOK, Call,
        Idle, Running, CallsHaveDevice, SyncInv
  <2>2. CASE ~creds[d]
    BY <2>2 DEF TimerFires, Begin, Upload, Put, CallsCarryOwed, Carries, Running, SyncInv
  <2> QED BY <2>1, <2>2
<1>5. OneSettingsCall'
  <2>1. CASE creds[d]
    BY SMTT(30), <2>1 DEF TimerFires, Begin, Upload, Put, OneSettingsCall, SettingsOps, TypeOK, Call,
        Idle, Running, CallsHaveDevice, SyncInv
  <2>2. CASE ~creds[d]
    BY <2>2 DEF TimerFires, Begin, Upload, Put, OneSettingsCall, SettingsOps, Running, SyncInv
  <2> QED BY <2>1, <2>2
<1>6. SwitchStoresKeys'
  BY DEF TimerFires, Begin, Upload, Put, SwitchStoresKeys, OneSettingsCall, SettingsOps,
      TypeOK, Running, SyncInv
<1>7. NothingAfterLogout' /\ ClosedOwesNothing' /\ LogoutOnlyCloses'
  <2>1. SameLogouts
    BY DEF TimerFires, Begin, Upload, Put, SameLogouts, Idle, TypeOK, LogoutOnlyCloses, SyncInv
  <2>2. ClosedShrinks
    BY DEF TimerFires, Begin, Upload, Put, ClosedShrinks, LoggingOut, SettingsBusy,
        SettingsOps, ClosedOwesNothing, SwitchStoresKeys, Running, TypeOK, SyncInv
  <2> QED BY <2>1, <2>2, ClosedStaysClosed
<1>8. CredentialsArePersisted'
  BY DEF TimerFires, Begin, Upload, Put, CredentialsArePersisted, SwitchStoresKeys,
      NothingAfterLogout, SyncInv
<1> QED BY <1>1, <1>2, <1>3, <1>4, <1>5, <1>6, <1>7, <1>8 DEF SyncInv

\* A push or an enable clears the marker when what is owed has been uploaded.
LEMMA PushStoredKeepsInv ==
    ASSUME SyncInv, NEW f \in Frames, PushStored(f)
    PROVE  SyncInv'
<1> USE ConstantsAssumption DEF disk, session, history, bounds, InFrame, At
<1>1. TypeOK'
  BY DEF PushStored, ClearPending, Return, TypeOK, Call, Idle, Ops, Stages, Statuses,
      SyncInv
<1>2. CallsHaveDevice'
  BY DEF PushStored, ClearPending, Return, CallsHaveDevice, Idle, SyncInv
<1>3. OwedIsKept'
  BY DEF PushStored, ClearPending, Return, OwedIsKept, CallsCarryOwed, Carries,
      Running, SyncInv
<1>4. CallsCarryOwed'
  BY DEF PushStored, ClearPending, Return, CallsCarryOwed, Carries, OwedIsKept, Idle,
      Running, SyncInv
<1>5. OneSettingsCall'
  BY DEF PushStored, ClearPending, Return, OneSettingsCall, SettingsOps, Idle, Running,
      SyncInv
<1>6. SwitchStoresKeys'
  BY DEF PushStored, ClearPending, Return, SwitchStoresKeys, OneSettingsCall,
      SettingsOps, Idle, Running, SyncInv
<1>7. NothingAfterLogout' /\ ClosedOwesNothing' /\ LogoutOnlyCloses'
  <2>1. SameLogouts
    BY DEF PushStored, ClearPending, Return, SameLogouts, Idle, TypeOK, LogoutOnlyCloses, SyncInv
  <2>2. ClosedShrinks
    BY DEF PushStored, ClearPending, Return, ClosedShrinks, LoggingOut, SettingsBusy,
        SettingsOps, ClosedOwesNothing, SwitchStoresKeys, Running, TypeOK, SyncInv
  <2> QED BY <2>1, <2>2, ClosedStaysClosed
<1>8. CredentialsArePersisted'
  BY DEF PushStored, ClearPending, Return, CredentialsArePersisted, SwitchStoresKeys,
      NothingAfterLogout, SyncInv
<1> QED BY <1>1, <1>2, <1>3, <1>4, <1>5, <1>6, <1>7, <1>8 DEF SyncInv

\* A pull flushes first when the marker is set; otherwise the cloud has all that is owed.
LEMMA StartPullKeepsInv ==
    ASSUME SyncInv, NEW d \in Devices, NEW f \in Frames, StartPull(d, f)
    PROVE  SyncInv'
<1> USE ConstantsAssumption DEF disk, session, history, bounds, InFrame, At
<1>1. TypeOK'
  BY DEF StartPull, Begin, PullCall, Upload, Put, Get, TypeOK, Call, Ops, Stages, Statuses,
      SyncInv
<1>2. CallsHaveDevice'
  BY DEF StartPull, Begin, PullCall, Upload, Put, Get, CallsHaveDevice, SyncInv
<1>3. OwedIsKept'
  BY DEF StartPull, Begin, PullCall, Upload, Put, Get, OwedIsKept, CallsCarryOwed, Carries,
      SyncInv
<1>4. CallsCarryOwed'
  BY DEF StartPull, Begin, PullCall, Upload, Put, Get, CallsCarryOwed, Carries, OwedIsKept,
      Running, SyncInv
<1>5. OneSettingsCall'
  BY DEF StartPull, Begin, PullCall, Upload, Put, Get, OneSettingsCall, SettingsOps, Running,
      SyncInv
<1>6. SwitchStoresKeys'
  BY DEF StartPull, Begin, PullCall, Upload, Put, Get, SwitchStoresKeys, OneSettingsCall,
      SettingsOps, Running, SyncInv
<1>7. NothingAfterLogout' /\ ClosedOwesNothing' /\ LogoutOnlyCloses'
  <2>1. SameLogouts
    BY DEF StartPull, Begin, PullCall, Upload, Put, Get, SameLogouts, Idle, TypeOK,
        LogoutOnlyCloses, SyncInv
  <2>2. ClosedShrinks
    BY DEF StartPull, Begin, PullCall, Upload, Put, Get, ClosedShrinks, LoggingOut,
        SettingsBusy, SettingsOps, ClosedOwesNothing, SwitchStoresKeys, Running,
        TypeOK, SyncInv
  <2> QED BY <2>1, <2>2, ClosedStaysClosed
<1>8. CredentialsArePersisted'
  BY DEF StartPull, Begin, PullCall, Upload, Put, Get, CredentialsArePersisted,
      SwitchStoresKeys, NothingAfterLogout, SyncInv
<1> QED BY <1>1, <1>2, <1>3, <1>4, <1>5, <1>6, <1>7, <1>8 DEF SyncInv

\* After the flush every owed edit has been uploaded.
LEMMA FlushStoredKeepsInv ==
    ASSUME SyncInv, NEW f \in Frames, FlushStored(f)
    PROVE  SyncInv'
<1> USE ConstantsAssumption DEF disk, session, history, bounds, InFrame, At
<1>1. TypeOK'
  BY DEF FlushStored, ClearPending, Get, TypeOK, Call, Stages, SyncInv
<1>2. CallsHaveDevice'
  BY DEF FlushStored, ClearPending, Get, CallsHaveDevice, SyncInv
<1>3. OwedIsKept'
  BY DEF FlushStored, ClearPending, Get, OwedIsKept, CallsCarryOwed, Carries, Running,
      SyncInv
<1>4. CallsCarryOwed'
  BY DEF FlushStored, ClearPending, Get, CallsCarryOwed, Carries, OwedIsKept, Running,
      SyncInv
<1>5. OneSettingsCall'
  BY DEF FlushStored, ClearPending, Get, OneSettingsCall, SettingsOps, Running, SyncInv
<1>6. SwitchStoresKeys'
  BY DEF FlushStored, ClearPending, Get, SwitchStoresKeys, OneSettingsCall,
      SettingsOps, Running, SyncInv
<1>7. NothingAfterLogout' /\ ClosedOwesNothing' /\ LogoutOnlyCloses'
  <2>1. SameLogouts
    BY DEF FlushStored, ClearPending, Get, SameLogouts, Idle, TypeOK, LogoutOnlyCloses, SyncInv
  <2>2. ClosedShrinks
    BY DEF FlushStored, ClearPending, Get, ClosedShrinks, LoggingOut, SettingsBusy,
        SettingsOps, ClosedOwesNothing, SwitchStoresKeys, Running, TypeOK, SyncInv
  <2> QED BY <2>1, <2>2, ClosedStaysClosed
<1>8. CredentialsArePersisted'
  BY DEF FlushStored, ClearPending, Get, CredentialsArePersisted, SwitchStoresKeys,
      NothingAfterLogout, SyncInv
<1> QED BY <1>1, <1>2, <1>3, <1>4, <1>5, <1>6, <1>7, <1>8 DEF SyncInv

\* A 304 changes what the session remembers and nothing else.
LEMMA PullNotModifiedKeepsInv ==
    ASSUME SyncInv, NEW f \in Frames, PullNotModified(f)
    PROVE  SyncInv'
<1> USE ConstantsAssumption DEF disk, session, history, bounds, InFrame, At
<1>1. TypeOK'
  BY DEF PullNotModified, Return, TypeOK, Call, Idle, Ops, Stages, Statuses, SyncInv
<1>2. CallsHaveDevice'
  BY DEF PullNotModified, Return, CallsHaveDevice, Idle, SyncInv
<1>3. OwedIsKept'
  BY DEF PullNotModified, Return, OwedIsKept, CallsCarryOwed, Carries, SyncInv
<1>4. CallsCarryOwed'
  BY DEF PullNotModified, Return, CallsCarryOwed, Carries, OwedIsKept, Idle, Running,
      SyncInv
<1>5. OneSettingsCall'
  BY DEF PullNotModified, Return, OneSettingsCall, SettingsOps, Idle, Running, SyncInv
<1>6. SwitchStoresKeys'
  BY DEF PullNotModified, Return, SwitchStoresKeys, OneSettingsCall, SettingsOps, Idle,
      Running, SyncInv
<1>7. NothingAfterLogout' /\ ClosedOwesNothing' /\ LogoutOnlyCloses'
  <2>1. SameLogouts
    BY DEF PullNotModified, Return, SameLogouts, Idle, TypeOK, LogoutOnlyCloses, SyncInv
  <2>2. ClosedShrinks
    BY DEF PullNotModified, Return, ClosedShrinks, LoggingOut, SettingsBusy,
        SettingsOps, ClosedOwesNothing, SwitchStoresKeys, Running, TypeOK, SyncInv
  <2> QED BY <2>1, <2>2, ClosedStaysClosed
<1>8. CredentialsArePersisted'
  BY DEF PullNotModified, Return, CredentialsArePersisted, SwitchStoresKeys,
      NothingAfterLogout, SyncInv
<1> QED BY <1>1, <1>2, <1>3, <1>4, <1>5, <1>6, <1>7, <1>8 DEF SyncInv

\* The import replaces a database whose owed edits have been uploaded.
LEMMA PullImportsKeepsInv ==
    ASSUME SyncInv, NEW f \in Frames, PullImports(f)
    PROVE  SyncInv'
<1> USE ConstantsAssumption DEF disk, session, history, bounds, InFrame, At
<1>1. TypeOK'
  <2>1. call[f].dev \in Devices /\ call[f].snap \in SUBSET Edits
    BY DEF PullImports, SyncInv, CallsHaveDevice, TypeOK, Call
  <2>2. local' \in [Devices -> SUBSET Edits] /\ status' \in [Devices -> Statuses]
    BY <2>1 DEF PullImports, ReplaceLocal, SyncInv, TypeOK, Statuses
  <2>3. call' \in [Frames -> Call]
    BY DEF PullImports, ReplaceLocal, MoveTo, Moved, Return, SyncInv, TypeOK, Call,
        Idle, Ops, Stages
  <2> QED BY <2>2, <2>3 DEF PullImports, SyncInv, TypeOK
<1>2. CallsHaveDevice'
  BY DEF PullImports, ReplaceLocal, MoveTo, Moved, Return, CallsHaveDevice, TypeOK,
      Idle, SyncInv
<1>3. OwedIsKept'
  BY DEF PullImports, ReplaceLocal, MoveTo, Moved, Return, OwedIsKept, CallsCarryOwed,
      Carries, TypeOK, Running, SyncInv
<1>4. CallsCarryOwed'
  BY DEF PullImports, ReplaceLocal, MoveTo, Moved, Return, CallsCarryOwed, Carries,
      OwedIsKept, TypeOK, Idle, Running, SyncInv
<1>5. OneSettingsCall'
  <2>1. \A g \in Frames : g # f => call'[g] = call[g]
    BY DEF PullImports, ReplaceLocal, MoveTo, Return, SyncInv, TypeOK
  <2>2. call'[f].op \notin SettingsOps
    BY DEF PullImports, ReplaceLocal, MoveTo, Moved, Return, Idle, SettingsOps,
        SyncInv, TypeOK
  <2> QED BY <2>1, <2>2 DEF OneSettingsCall, Running, SyncInv
<1>6. SwitchStoresKeys'
  BY DEF PullImports, ReplaceLocal, MoveTo, Moved, Return, SwitchStoresKeys,
      OneSettingsCall, SettingsOps, TypeOK, Idle, Running, CallsHaveDevice, SyncInv
<1>7. NothingAfterLogout' /\ ClosedOwesNothing' /\ LogoutOnlyCloses'
  <2>1. SameLogouts
    BY DEF PullImports, ReplaceLocal, MoveTo, Moved, Return, SameLogouts, Idle,
        TypeOK, LogoutOnlyCloses, SyncInv
  <2>2. ClosedShrinks
    BY DEF PullImports, ReplaceLocal, MoveTo, Moved, Return, ClosedShrinks,
        LoggingOut, SettingsBusy, SettingsOps, ClosedOwesNothing, SwitchStoresKeys,
        Running, TypeOK, SyncInv
  <2> QED BY <2>1, <2>2, ClosedStaysClosed
<1>8. CredentialsArePersisted'
  BY DEF PullImports, ReplaceLocal, MoveTo, Moved, Return, CredentialsArePersisted,
      SwitchStoresKeys, NothingAfterLogout, SyncInv
<1> QED BY <1>1, <1>2, <1>3, <1>4, <1>5, <1>6, <1>7, <1>8 DEF SyncInv

\* The end of a pull changes what the session remembers and nothing else.
LEMMA PullSettlesKeepsInv ==
    ASSUME SyncInv, NEW f \in Frames, PullSettles(f)
    PROVE  SyncInv'
<1> USE ConstantsAssumption DEF disk, session, history, bounds, InFrame, At
<1>1. TypeOK'
  BY DEF PullSettles, Return, TypeOK, Call, Idle, Ops, Stages, Statuses, SyncInv
<1>2. CallsHaveDevice'
  BY DEF PullSettles, Return, CallsHaveDevice, Idle, SyncInv
<1>3. OwedIsKept'
  BY DEF PullSettles, Return, OwedIsKept, CallsCarryOwed, Carries, SyncInv
<1>4. CallsCarryOwed'
  BY DEF PullSettles, Return, CallsCarryOwed, Carries, OwedIsKept, Idle, Running,
      SyncInv
<1>5. OneSettingsCall'
  BY DEF PullSettles, Return, OneSettingsCall, SettingsOps, Idle, Running, SyncInv
<1>6. SwitchStoresKeys'
  BY DEF PullSettles, Return, SwitchStoresKeys, OneSettingsCall, SettingsOps, Idle,
      Running, SyncInv
<1>7. NothingAfterLogout' /\ ClosedOwesNothing' /\ LogoutOnlyCloses'
  <2>1. SameLogouts
    BY DEF PullSettles, Return, SameLogouts, Idle, TypeOK, LogoutOnlyCloses, SyncInv
  <2>2. ClosedShrinks
    BY DEF PullSettles, Return, ClosedShrinks, LoggingOut, SettingsBusy, SettingsOps,
        ClosedOwesNothing, SwitchStoresKeys, Running, TypeOK, SyncInv
  <2> QED BY <2>1, <2>2, ClosedStaysClosed
<1>8. CredentialsArePersisted'
  BY DEF PullSettles, Return, CredentialsArePersisted, SwitchStoresKeys,
      NothingAfterLogout, SyncInv
<1> QED BY <1>1, <1>2, <1>3, <1>4, <1>5, <1>6, <1>7, <1>8 DEF SyncInv

\* A call that fails keeps the database and the marker.
LEMMA CallFailsKeepsInv ==
    ASSUME SyncInv, NEW f \in Frames, CallFails(f)
    PROVE  SyncInv'
<1> USE ConstantsAssumption DEF disk, session, history, bounds, InFrame, At
<1>1. TypeOK'
  BY DEF CallFails, Return, TypeOK, Call, Idle, Ops, Stages, Statuses, SyncInv
<1>2. CallsHaveDevice'
  BY DEF CallFails, Return, CallsHaveDevice, Idle, SyncInv
<1>3. OwedIsKept'
  BY DEF CallFails, Return, OwedIsKept, CallsCarryOwed, Carries, SyncInv
<1>4. CallsCarryOwed'
  BY DEF CallFails, Return, CallsCarryOwed, Carries, OwedIsKept, Idle, Running, SyncInv
<1>5. OneSettingsCall'
  BY DEF CallFails, Return, OneSettingsCall, SettingsOps, Idle, Running, SyncInv
<1>6. SwitchStoresKeys'
  BY DEF CallFails, Return, SwitchStoresKeys, OneSettingsCall, SettingsOps, Idle,
      Running, SyncInv
<1>7. NothingAfterLogout' /\ ClosedOwesNothing' /\ LogoutOnlyCloses'
  <2>1. SameLogouts
    BY DEF CallFails, Return, SameLogouts, Idle, TypeOK, LogoutOnlyCloses, SyncInv
  <2>2. ClosedShrinks
    BY DEF CallFails, Return, ClosedShrinks, LoggingOut, SettingsBusy, SettingsOps,
        ClosedOwesNothing, SwitchStoresKeys, Running, TypeOK, SyncInv
  <2> QED BY <2>1, <2>2, ClosedStaysClosed
<1>8. CredentialsArePersisted'
  BY DEF CallFails, Return, CredentialsArePersisted, SwitchStoresKeys,
      NothingAfterLogout, SyncInv
<1> QED BY <1>1, <1>2, <1>3, <1>4, <1>5, <1>6, <1>7, <1>8 DEF SyncInv

\* An import that fails leaves the tables as they were.
LEMMA ImportFailsKeepsInv ==
    ASSUME SyncInv, NEW f \in Frames, ImportFails(f)
    PROVE  SyncInv'
<1> USE ConstantsAssumption DEF disk, session, history, bounds, InFrame, At
<1>1. TypeOK'
  BY DEF ImportFails, MoveTo, Moved, TypeOK, Call, Stages, SyncInv
<1>2. CallsHaveDevice'
  BY DEF ImportFails, MoveTo, Moved, CallsHaveDevice, SyncInv
<1>3. OwedIsKept'
  BY DEF ImportFails, MoveTo, Moved, OwedIsKept, CallsCarryOwed, Carries, SyncInv
<1>4. CallsCarryOwed'
  BY DEF ImportFails, MoveTo, Moved, CallsCarryOwed, Carries, OwedIsKept, Running,
      SyncInv
<1>5. OneSettingsCall'
  BY DEF ImportFails, MoveTo, Moved, OneSettingsCall, SettingsOps, Running, SyncInv
<1>6. SwitchStoresKeys'
  BY DEF ImportFails, MoveTo, Moved, SwitchStoresKeys, OneSettingsCall, SettingsOps,
      Running, SyncInv
<1>7. NothingAfterLogout' /\ ClosedOwesNothing' /\ LogoutOnlyCloses'
  <2>1. SameLogouts
    BY DEF ImportFails, MoveTo, Moved, SameLogouts, Idle, TypeOK, LogoutOnlyCloses, SyncInv
  <2>2. ClosedShrinks
    BY DEF ImportFails, MoveTo, Moved, ClosedShrinks, LoggingOut, SettingsBusy,
        SettingsOps, ClosedOwesNothing, SwitchStoresKeys, Running, TypeOK, SyncInv
  <2> QED BY <2>1, <2>2, ClosedStaysClosed
<1>8. CredentialsArePersisted'
  BY DEF ImportFails, MoveTo, Moved, CredentialsArePersisted, SwitchStoresKeys,
      NothingAfterLogout, SyncInv
<1> QED BY <1>1, <1>2, <1>3, <1>4, <1>5, <1>6, <1>7, <1>8 DEF SyncInv

\* A restore starts by giving up what the device owes.
LEMMA StartResyncKeepsInv ==
    ASSUME SyncInv, NEW d \in Devices, NEW f \in Frames, StartResync(d, f)
    PROVE  SyncInv'
<1> USE ConstantsAssumption DEF disk, session, history, bounds, InFrame, At
<1>1. TypeOK'
  <2>1. userOps' \in 0..MaxUserOps
    BY ConstantsAssumption DEF SyncInv, TypeOK, StartResync, UserOp
  <2>2. call' \in [Frames -> Call]
    BY DEF StartResync, ClearPending, Begin, Get, SettingsBusy, TypeOK, Call, Ops,
        Stages, SyncInv
  <2> QED BY <2>1, <2>2 DEF StartResync, ClearPending, TypeOK, Statuses, SyncInv
<1>2. CallsHaveDevice'
  BY DEF StartResync, UserOp, ClearPending, Begin, Get, SettingsBusy, CallsHaveDevice,
      SyncInv
<1>3. OwedIsKept'
  BY DEF StartResync, UserOp, ClearPending, Begin, Get, SettingsBusy, OwedIsKept,
      CallsCarryOwed, Carries, TypeOK, SyncInv
<1>4. CallsCarryOwed'
  BY DEF StartResync, UserOp, ClearPending, Begin, Get, SettingsBusy, CallsCarryOwed,
      Carries, OwedIsKept, TypeOK, Running, SyncInv
<1>5. OneSettingsCall'
  BY DEF StartResync, UserOp, ClearPending, Begin, Get, SettingsBusy, OneSettingsCall,
      SettingsOps, Running, SyncInv
<1>6. SwitchStoresKeys'
  BY DEF StartResync, UserOp, ClearPending, Begin, Get, SettingsBusy, SwitchStoresKeys,
      OneSettingsCall, SettingsOps, Running, SyncInv
<1>7. NothingAfterLogout' /\ ClosedOwesNothing' /\ LogoutOnlyCloses'
  <2>1. SameLogouts
    BY DEF StartResync, UserOp, ClearPending, Begin, Get, SettingsBusy, SameLogouts,
        Idle, TypeOK, LogoutOnlyCloses, SyncInv
  <2>2. ClosedShrinks
    BY DEF StartResync, UserOp, ClearPending, Begin, Get, SettingsBusy, ClosedShrinks,
        LoggingOut, SettingsOps, ClosedOwesNothing, SwitchStoresKeys, Running, TypeOK,
        SyncInv
  <2> QED BY <2>1, <2>2, ClosedStaysClosed
<1>8. CredentialsArePersisted'
  BY DEF StartResync, UserOp, ClearPending, Begin, Get, SettingsBusy,
      CredentialsArePersisted, SwitchStoresKeys, NothingAfterLogout, SyncInv
<1> QED BY <1>1, <1>2, <1>3, <1>4, <1>5, <1>6, <1>7, <1>8 DEF SyncInv

\* A restore replaces the database when nothing is owed.
LEMMA ResyncImportsKeepsInv ==
    ASSUME SyncInv, NEW f \in Frames, ResyncImports(f)
    PROVE  SyncInv'
<1> USE ConstantsAssumption DEF disk, session, history, bounds, InFrame, At
<1>1. TypeOK'
  <2>1. call[f].dev \in Devices
    BY DEF ResyncImports, SyncInv, CallsHaveDevice
  <2>2. local' \in [Devices -> SUBSET Edits] /\ status' \in [Devices -> Statuses]
    BY <2>1 DEF ResyncImports, ReplaceLocal, SyncInv, TypeOK, Call, Statuses
  <2>3. call' \in [Frames -> Call]
    BY DEF ResyncImports, ReplaceLocal, MoveTo, Moved, Return, SyncInv, TypeOK, Call,
        Idle, Ops, Stages
  <2>4. discarded' \in SUBSET Edits
    BY <2>1 DEF ResyncImports, SyncInv, TypeOK
  <2> QED BY <2>2, <2>3, <2>4 DEF ResyncImports, SyncInv, TypeOK
<1>2. CallsHaveDevice'
  BY DEF ResyncImports, ReplaceLocal, MoveTo, Moved, Return, CallsHaveDevice, TypeOK,
      Idle, SyncInv
<1>a. /\ \A g \in Frames \ {f} : call'[g] = call[g]
      /\ \/ call'[f] = Idle
         \/ call'[f] = Moved(f, "imported", call[f].snap, call[f].tag)
  BY DEF ResyncImports, ReplaceLocal, MoveTo, Return, SyncInv, TypeOK
<1>b. /\ UNCHANGED <<owed, uploaded, pending, open, keys, timer, creds>>
      /\ call[f].op = "resync" /\ call[f].dev \in Devices
      /\ \A d \in Devices \ {call[f].dev} : local'[d] = local[d]
  BY DEF ResyncImports, ReplaceLocal, SyncInv, CallsHaveDevice, TypeOK
<1>c. ASSUME NEW d \in Devices, NEW g \in Running(d)'
      PROVE  /\ g \in Running(d) /\ call'[g].op = call[g].op
             /\ call'[g] = call[g] \/ (g = f /\ call'[g].stage = "imported")
  BY <1>a DEF Running, Idle, Moved
<1>d. owed[call[f].dev] \subseteq uploaded
  BY <1>b DEF SyncInv, CallsCarryOwed, Carries, Running
<1>3. OwedIsKept'
  BY <1>b, <1>d DEF OwedIsKept, SyncInv
<1>4. CallsCarryOwed'
  <2> SUFFICES ASSUME NEW d \in Devices, NEW g \in Running(d)' PROVE Carries(d, g)'
    BY DEF CallsCarryOwed
  <2>1. g \in Running(d) /\ Carries(d, g)
    BY <1>c DEF CallsCarryOwed, SyncInv
  <2>2. CASE call'[g] = call[g]
    BY <1>b, <2>1, <2>2 DEF Carries
  <2>3. CASE g = f /\ call'[g].stage = "imported"
    <3>1. call[f].dev = d /\ call'[f].op = "resync"
      BY <1>b, <1>c, <2>1, <2>3 DEF Running
    <3> QED BY <1>b, <1>d, <2>3, <3>1 DEF Carries
  <2> QED BY <1>c, <2>2, <2>3
<1>5. OneSettingsCall'
  BY <1>c DEF OneSettingsCall, SyncInv
<1>6. SwitchStoresKeys'
  <2> SUFFICES ASSUME NEW d \in Devices, NEW g \in Running(d)',
                      \/ call'[g].op = "replace" /\ call'[g].stage = "imported"
                      \/ call'[g].op = "merge" /\ call'[g].stage \in {"put", "stored"}
               PROVE  open'[d] /\ keys'[d]
    BY DEF SwitchStoresKeys
  <2>1. g \in Running(d) /\ call'[g] = call[g]
    BY <1>b, <1>c
  <2> QED BY <1>b, <2>1 DEF SwitchStoresKeys, SyncInv
<1>7. NothingAfterLogout' /\ ClosedOwesNothing' /\ LogoutOnlyCloses'
  <2>1. ~open[call[f].dev] => local' = local
    BY DEF ResyncImports, ReplaceLocal
  <2>2. SameLogouts
    BY <1>a, <1>b DEF SameLogouts, Idle, Moved
  <2>3. ClosedShrinks
    BY <1>b, <2>1 DEF ClosedShrinks
  <2> QED BY <2>2, <2>3, ClosedStaysClosed
<1>8. CredentialsArePersisted'
  BY <1>b DEF CredentialsArePersisted, SyncInv
<1> QED BY <1>1, <1>2, <1>3, <1>4, <1>5, <1>6, <1>7, <1>8 DEF SyncInv

\* The end of a restore changes what the session remembers and nothing else.
LEMMA ResyncSettlesKeepsInv ==
    ASSUME SyncInv, NEW f \in Frames, ResyncSettles(f)
    PROVE  SyncInv'
<1> USE ConstantsAssumption DEF disk, session, history, bounds, InFrame, At
<1>1. TypeOK'
  BY DEF ResyncSettles, Return, TypeOK, Call, Idle, Ops, Stages, Statuses, SyncInv
<1>2. CallsHaveDevice'
  BY DEF ResyncSettles, Return, CallsHaveDevice, Idle, SyncInv
<1>3. OwedIsKept'
  BY DEF ResyncSettles, Return, OwedIsKept, CallsCarryOwed, Carries, SyncInv
<1>4. CallsCarryOwed'
  BY DEF ResyncSettles, Return, CallsCarryOwed, Carries, OwedIsKept, Idle, Running,
      SyncInv
<1>5. OneSettingsCall'
  BY DEF ResyncSettles, Return, OneSettingsCall, SettingsOps, Idle, Running, SyncInv
<1>6. SwitchStoresKeys'
  BY DEF ResyncSettles, Return, SwitchStoresKeys, OneSettingsCall, SettingsOps, Idle,
      Running, SyncInv
<1>7. NothingAfterLogout' /\ ClosedOwesNothing' /\ LogoutOnlyCloses'
  <2>1. SameLogouts
    BY DEF ResyncSettles, Return, SameLogouts, Idle, TypeOK, LogoutOnlyCloses, SyncInv
  <2>2. ClosedShrinks
    BY DEF ResyncSettles, Return, ClosedShrinks, LoggingOut, SettingsBusy,
        SettingsOps, ClosedOwesNothing, SwitchStoresKeys, Running, TypeOK, SyncInv
  <2> QED BY <2>1, <2>2, ClosedStaysClosed
<1>8. CredentialsArePersisted'
  BY DEF ResyncSettles, Return, CredentialsArePersisted, SwitchStoresKeys,
      NothingAfterLogout, SyncInv
<1> QED BY <1>1, <1>2, <1>3, <1>4, <1>5, <1>6, <1>7, <1>8 DEF SyncInv

\* Sync is turned on for a vault nobody knows yet: the keys come first, then the push.
LEMMA StartEnableKeepsInv ==
    ASSUME SyncInv, NEW d \in Devices, NEW f \in Frames, StartEnable(d, f)
    PROVE  SyncInv'
<1> USE ConstantsAssumption DEF disk, session, history, bounds, InFrame, At
<1>1. TypeOK'
  <2>1. userOps' \in 0..MaxUserOps
    BY ConstantsAssumption DEF SyncInv, TypeOK, StartEnable, UserOp
  <2>2. call' \in [Frames -> Call]
    BY DEF StartEnable, FreshVault, Begin, Put, TypeOK, Call, Ops, Stages, SyncInv
  <2> QED BY <2>1, <2>2 DEF StartEnable, FreshVault, TypeOK, Statuses, SyncInv
<1>2. CallsHaveDevice'
  BY DEF StartEnable, FreshVault, UserOp, Begin, Put, CallsHaveDevice, Idle
<1>3. OwedIsKept'
  BY DEF StartEnable, FreshVault, UserOp, Begin, Put, OwedIsKept, CallsCarryOwed,
      Carries, SyncInv
<1>4. CallsCarryOwed'
  BY DEF StartEnable, FreshVault, UserOp, Begin, Put, CallsCarryOwed, Carries,
      OwedIsKept, Running, SyncInv
<1>5. OneSettingsCall'
  BY DEF StartEnable, FreshVault, UserOp, Begin, Put, OneSettingsCall, SettingsOps,
      Idle, Running
<1>6. SwitchStoresKeys'
  BY DEF StartEnable, FreshVault, UserOp, Begin, Put, SwitchStoresKeys,
      OneSettingsCall, SettingsOps, Idle, Running
<1>7. NothingAfterLogout' /\ ClosedOwesNothing' /\ LogoutOnlyCloses'
  <2>1. SameLogouts
    BY DEF StartEnable, FreshVault, UserOp, Begin, Put, SameLogouts, Idle, TypeOK,
        LogoutOnlyCloses, SyncInv
  <2>2. ClosedShrinks
    BY DEF StartEnable, FreshVault, UserOp, Begin, Put, ClosedShrinks, LoggingOut,
        SettingsBusy, SettingsOps, ClosedOwesNothing, SwitchStoresKeys, Running,
        TypeOK, SyncInv
  <2> QED BY <2>1, <2>2, ClosedStaysClosed
<1>8. CredentialsArePersisted'
  BY DEF StartEnable, FreshVault, UserOp, Begin, Put, CredentialsArePersisted,
      SwitchStoresKeys, NothingAfterLogout, TypeOK, SyncInv
<1> QED BY <1>1, <1>2, <1>3, <1>4, <1>5, <1>6, <1>7, <1>8 DEF SyncInv

\* A rejected passphrase changes the status and nothing else.
LEMMA EnableRejectedKeepsInv ==
    ASSUME SyncInv, NEW d \in Devices, EnableRejected(d)
    PROVE  SyncInv'
<1> USE ConstantsAssumption DEF disk, session, history, bounds, InFrame, At
<1>1. TypeOK'
  <2>1. userOps' \in 0..MaxUserOps
    BY ConstantsAssumption DEF SyncInv, TypeOK, EnableRejected, UserOp
  <2>2. call' \in [Frames -> Call]
    BY DEF EnableRejected, TypeOK, SyncInv
  <2> QED BY <2>1, <2>2 DEF EnableRejected, TypeOK, Statuses, SyncInv
<1>2. CallsHaveDevice'
  BY DEF EnableRejected, UserOp, CallsHaveDevice, SyncInv
<1>3. OwedIsKept'
  BY DEF EnableRejected, UserOp, OwedIsKept, CallsCarryOwed, Carries, SyncInv
<1>4. CallsCarryOwed'
  BY DEF EnableRejected, UserOp, CallsCarryOwed, Carries, OwedIsKept, Running, SyncInv
<1>5. OneSettingsCall'
  BY DEF EnableRejected, UserOp, OneSettingsCall, SettingsOps, Running, SyncInv
<1>6. SwitchStoresKeys'
  BY DEF EnableRejected, UserOp, SwitchStoresKeys, OneSettingsCall, SettingsOps,
      Running, SyncInv
<1>7. NothingAfterLogout' /\ ClosedOwesNothing' /\ LogoutOnlyCloses'
  <2>1. SameLogouts
    BY DEF EnableRejected, UserOp, SameLogouts, Idle, TypeOK, LogoutOnlyCloses, SyncInv
  <2>2. ClosedShrinks
    BY DEF EnableRejected, UserOp, ClosedShrinks, LoggingOut, SettingsBusy,
        SettingsOps, ClosedOwesNothing, SwitchStoresKeys, Running, TypeOK, SyncInv
  <2> QED BY <2>1, <2>2, ClosedStaysClosed
<1>8. CredentialsArePersisted'
  BY DEF EnableRejected, UserOp, CredentialsArePersisted, SwitchStoresKeys,
      NothingAfterLogout, SyncInv
<1> QED BY <1>1, <1>2, <1>3, <1>4, <1>5, <1>6, <1>7, <1>8 DEF SyncInv

\* Turning sync off keeps the database and the marker.
LEMMA DisableSyncKeepsInv ==
    ASSUME SyncInv, NEW d \in Devices, DisableSync(d)
    PROVE  SyncInv'
<1> USE ConstantsAssumption DEF disk, session, history, bounds, InFrame, At
<1>1. TypeOK'
  <2>1. userOps' \in 0..MaxUserOps
    BY ConstantsAssumption DEF SyncInv, TypeOK, DisableSync, UserOp
  <2>2. call' \in [Frames -> Call]
    BY DEF DisableSync, Unlink, ForgetKeys, SettingsBusy, TypeOK, SyncInv
  <2> QED BY <2>1, <2>2 DEF DisableSync, Unlink, ForgetKeys, TypeOK, Statuses, SyncInv
<1>2. CallsHaveDevice'
  BY DEF DisableSync, UserOp, Unlink, ForgetKeys, SettingsBusy, CallsHaveDevice, SyncInv
<1>3. OwedIsKept'
  BY DEF DisableSync, UserOp, Unlink, ForgetKeys, SettingsBusy, OwedIsKept, CallsCarryOwed,
      Carries, SyncInv
<1>4. CallsCarryOwed'
  BY DEF DisableSync, UserOp, Unlink, ForgetKeys, SettingsBusy, CallsCarryOwed, Carries,
      OwedIsKept, Running, SyncInv
<1>5. OneSettingsCall'
  BY DEF DisableSync, UserOp, Unlink, ForgetKeys, SettingsBusy, OneSettingsCall, SettingsOps,
      Running, SyncInv
<1>6. SwitchStoresKeys'
  BY DEF DisableSync, UserOp, Unlink, ForgetKeys, SettingsBusy, SwitchStoresKeys, OneSettingsCall,
      SettingsOps, Running, SyncInv
<1>7. NothingAfterLogout' /\ ClosedOwesNothing' /\ LogoutOnlyCloses'
  <2>1. SameLogouts
    BY DEF DisableSync, UserOp, Unlink, ForgetKeys, SettingsBusy, SameLogouts, Idle,
        TypeOK, LogoutOnlyCloses, SyncInv
  <2>2. ClosedShrinks
    BY DEF DisableSync, UserOp, Unlink, ForgetKeys, SettingsBusy, ClosedShrinks,
        LoggingOut, SettingsOps, ClosedOwesNothing, SwitchStoresKeys, Running, TypeOK,
        SyncInv
  <2> QED BY <2>1, <2>2, ClosedStaysClosed
<1>8. CredentialsArePersisted'
  BY DEF DisableSync, UserOp, Unlink, ForgetKeys, SettingsBusy, CredentialsArePersisted,
      SwitchStoresKeys, NothingAfterLogout, TypeOK, SyncInv
<1> QED BY <1>1, <1>2, <1>3, <1>4, <1>5, <1>6, <1>7, <1>8 DEF SyncInv

\* The DELETE is sent while database, marker and keys are as before.
LEMMA StartEraseKeepsInv ==
    ASSUME SyncInv, NEW d \in Devices, NEW f \in Frames, StartErase(d, f)
    PROVE  SyncInv'
<1> USE ConstantsAssumption DEF disk, session, history, bounds, InFrame, At
<1>1. TypeOK'
  <2>1. userOps' \in 0..MaxUserOps
    BY ConstantsAssumption DEF SyncInv, TypeOK, StartErase, UserOp
  <2>2. call' \in [Frames -> Call]
    BY DEF StartErase, Begin, SettingsBusy, TypeOK, Call, Ops, Stages, SyncInv
  <2> QED BY <2>1, <2>2 DEF StartErase, SettingsBusy, TypeOK, SyncInv
<1>2. CallsHaveDevice'
  BY DEF StartErase, UserOp, Begin, SettingsBusy, CallsHaveDevice, SyncInv
<1>3. OwedIsKept'
  BY DEF StartErase, UserOp, Begin, SettingsBusy, OwedIsKept, CallsCarryOwed, Carries,
      SyncInv
<1>4. CallsCarryOwed'
  BY DEF StartErase, UserOp, Begin, SettingsBusy, CallsCarryOwed, Carries, OwedIsKept,
      Running, SyncInv
<1>5. OneSettingsCall'
  BY DEF StartErase, UserOp, Begin, SettingsBusy, OneSettingsCall, SettingsOps,
      Running, SyncInv
<1>6. SwitchStoresKeys'
  BY DEF StartErase, UserOp, Begin, SettingsBusy, SwitchStoresKeys, OneSettingsCall,
      SettingsOps, Running, SyncInv
<1>7. NothingAfterLogout' /\ ClosedOwesNothing' /\ LogoutOnlyCloses'
  <2>1. SameLogouts
    BY DEF StartErase, UserOp, Begin, SettingsBusy, SameLogouts, Idle, TypeOK, LogoutOnlyCloses, SyncInv
  <2>2. ClosedShrinks
    BY DEF StartErase, UserOp, Begin, SettingsBusy, ClosedShrinks, LoggingOut,
        SettingsOps, ClosedOwesNothing, SwitchStoresKeys, Running, TypeOK, SyncInv
  <2> QED BY <2>1, <2>2, ClosedStaysClosed
<1>8. CredentialsArePersisted'
  BY DEF StartErase, UserOp, Begin, SettingsBusy, CredentialsArePersisted,
      SwitchStoresKeys, NothingAfterLogout, SyncInv
<1> QED BY <1>1, <1>2, <1>3, <1>4, <1>5, <1>6, <1>7, <1>8 DEF SyncInv

\* After the DELETE the keys go, the database and the marker stay.
LEMMA EraseSettlesKeepsInv ==
    ASSUME SyncInv, NEW f \in Frames, EraseSettles(f)
    PROVE  SyncInv'
<1> USE ConstantsAssumption DEF disk, session, history, bounds, InFrame, At
<1>1. TypeOK'
  BY DEF EraseSettles, Unlink, ForgetKeys, Return, TypeOK, Call, Idle, Ops, Stages, Statuses,
      SyncInv
<1>2. CallsHaveDevice'
  BY DEF EraseSettles, Unlink, ForgetKeys, Return, CallsHaveDevice, Idle, SyncInv
<1>3. OwedIsKept'
  BY DEF EraseSettles, Unlink, ForgetKeys, Return, OwedIsKept, CallsCarryOwed, Carries, SyncInv
<1>4. CallsCarryOwed'
  BY DEF EraseSettles, Unlink, ForgetKeys, Return, CallsCarryOwed, Carries, OwedIsKept, Idle,
      Running, SyncInv
<1>5. OneSettingsCall'
  BY DEF EraseSettles, Unlink, ForgetKeys, Return, OneSettingsCall, SettingsOps, Idle, Running,
      SyncInv
<1>6. SwitchStoresKeys'
  BY DEF EraseSettles, Unlink, ForgetKeys, Return, SwitchStoresKeys, OneSettingsCall, SettingsOps,
      Idle, Running, SyncInv
<1>7. NothingAfterLogout' /\ ClosedOwesNothing' /\ LogoutOnlyCloses'
  <2>1. SameLogouts
    BY DEF EraseSettles, Unlink, ForgetKeys, Return, SameLogouts, Idle, TypeOK,
        LogoutOnlyCloses, SyncInv
  <2>2. ClosedShrinks
    BY DEF EraseSettles, Unlink, ForgetKeys, Return, ClosedShrinks, LoggingOut,
        SettingsBusy, SettingsOps, ClosedOwesNothing, SwitchStoresKeys, Running,
        TypeOK, SyncInv
  <2> QED BY <2>1, <2>2, ClosedStaysClosed
<1>8. CredentialsArePersisted'
  BY DEF EraseSettles, Unlink, ForgetKeys, Return, CredentialsArePersisted, SwitchStoresKeys,
      NothingAfterLogout, TypeOK, SyncInv
<1> QED BY <1>1, <1>2, <1>3, <1>4, <1>5, <1>6, <1>7, <1>8 DEF SyncInv

\* A logout closes the database at once and gives up what was owed.
LEMMA StartLogoutKeepsInv ==
    ASSUME SyncInv, NEW d \in Devices, NEW f \in Frames, StartLogout(d, f)
    PROVE  SyncInv'
<1> USE ConstantsAssumption DEF disk, session, history, bounds, InFrame, At
<1>0. /\ call[f] = Idle /\ call'[f].op = "logout" /\ call'[f].dev = d
      /\ call'[f].stage = "closing"
      /\ \A g \in Frames \ {f} : call'[g] = call[g]
      /\ \A g \in Running(d) : call[g].op \notin SettingsOps
  BY DEF StartLogout, Begin, SettingsBusy, TypeOK, SyncInv
<1>a. /\ UNCHANGED <<local, uploaded, pending, keys, creds>>
      /\ ~open'[d] /\ owed'[d] = {}
      /\ \A c \in Devices \ {d} : open'[c] = open[c] /\ owed'[c] = owed[c]
  BY DEF StartLogout, TypeOK, SyncInv
<1>b. ASSUME NEW c \in Devices, NEW g \in Running(c)'
      PROVE  (g = f /\ c = d) \/ (g \in Running(c) \ {f} /\ call'[g] = call[g])
  BY <1>0 DEF Running
<1>1. TypeOK'
  <2>1. userOps' \in 0..MaxUserOps
    BY ConstantsAssumption DEF SyncInv, TypeOK, StartLogout, UserOp
  <2>2. call' \in [Frames -> Call]
    BY DEF StartLogout, Begin, TypeOK, Call, Ops, Stages, SyncInv
  <2> QED BY <2>1, <2>2 DEF StartLogout, TypeOK, SyncInv
<1>2. CallsHaveDevice'
  BY <1>0 DEF CallsHaveDevice, SyncInv
<1>3. OwedIsKept'
  BY <1>a DEF OwedIsKept, SyncInv
<1>4. CallsCarryOwed'
  <2> SUFFICES ASSUME NEW c \in Devices, NEW g \in Running(c)' PROVE Carries(c, g)'
    BY DEF CallsCarryOwed
  <2>1. CASE g = f
    BY <1>0, <1>a, <1>b, <2>1 DEF Carries
  <2>2. CASE g # f
    <3>1. Carries(c, g) /\ call'[g] = call[g] /\ owed'[c] \subseteq owed[c]
      BY <1>0, <1>a, <1>b, <2>2 DEF CallsCarryOwed, SyncInv
    <3>2. uploaded' = uploaded
      BY <1>a
    <3> QED BY <3>1, <3>2 DEF Carries
  <2> QED BY <2>1, <2>2
<1>5. OneSettingsCall'
  BY <1>0, <1>b DEF OneSettingsCall, SyncInv
<1>6. SwitchStoresKeys'
  <2> SUFFICES ASSUME NEW c \in Devices, NEW g \in Running(c)',
                      \/ call'[g].op = "replace" /\ call'[g].stage = "imported"
                      \/ call'[g].op = "merge" /\ call'[g].stage \in {"put", "stored"}
               PROVE  open'[c] /\ keys'[c]
    BY DEF SwitchStoresKeys
  <2>1. g \in Running(c) /\ call'[g] = call[g]
    BY <1>0, <1>b
  <2>2. c # d
    BY <1>0, <2>1 DEF SettingsOps
  <2> QED BY <1>a, <2>1, <2>2 DEF SwitchStoresKeys, SyncInv
<1>7. ASSUME NEW c \in Devices PROVE LoggingOut(c)' <=> c = d \/ LoggingOut(c)
  BY <1>0, ConstantsAssumption DEF LoggingOut, Running, Idle
<1>8. NothingAfterLogout' /\ ClosedOwesNothing'
  BY <1>7, <1>a DEF NothingAfterLogout, ClosedOwesNothing, SyncInv
<1>9. CredentialsArePersisted'
  BY <1>a DEF CredentialsArePersisted, SyncInv
<1>10. LogoutOnlyCloses'
  BY <1>0 DEF LogoutOnlyCloses, SyncInv
<1> QED BY <1>1, <1>2, <1>3, <1>4, <1>5, <1>6, <1>8, <1>9, <1>10 DEF SyncInv

\* When the deletion has ended the data, the keys and the credentials are gone.
LEMMA LogoutSettlesKeepsInv ==
    ASSUME SyncInv, NEW f \in Frames, LogoutSettles(f)
    PROVE  SyncInv'
<1> USE ConstantsAssumption DEF disk, session, history, bounds, InFrame, At
<1> PICK d : d = call[f].dev
  OBVIOUS
<1>0. /\ d \in Devices /\ f \in Running(d) /\ call[f].op = "logout"
      /\ ~open[d] /\ owed[d] = {}
  BY DEF LogoutSettles, CallsHaveDevice, ClosedOwesNothing, LoggingOut, Running, SyncInv
<1>a. /\ UNCHANGED <<open, owed, uploaded, pending>>
      /\ call'[f] = Idle /\ \A g \in Frames \ {f} : call'[g] = call[g]
      /\ ~keys'[d] /\ ~creds'[d] /\ local'[d] = {}
      /\ \A c \in Devices \ {d} :
            local'[c] = local[c] /\ keys'[c] = keys[c] /\ creds'[c] = creds[c]
  BY <1>0 DEF LogoutSettles, ForgetKeys, Return, TypeOK, SyncInv
<1>b. ASSUME NEW c \in Devices, NEW g \in Running(c)'
      PROVE  g # f /\ g \in Running(c) /\ call'[g] = call[g]
  BY <1>a DEF Running, Idle
<1>1. TypeOK'
  BY <1>0 DEF LogoutSettles, ForgetKeys, Return, TypeOK, Call, Idle, Ops, Stages,
      Statuses, SyncInv
<1>2. CallsHaveDevice'
  BY <1>a DEF CallsHaveDevice, Idle, SyncInv
<1>3. OwedIsKept'
  BY <1>0, <1>a DEF OwedIsKept, SyncInv
<1>4. CallsCarryOwed'
  BY <1>a, <1>b DEF CallsCarryOwed, Carries, SyncInv
<1>5. OneSettingsCall'
  BY <1>b DEF OneSettingsCall, SyncInv
<1>6. SwitchStoresKeys'
  <2> SUFFICES ASSUME NEW c \in Devices, NEW g \in Running(c)',
                      \/ call'[g].op = "replace" /\ call'[g].stage = "imported"
                      \/ call'[g].op = "merge" /\ call'[g].stage \in {"put", "stored"}
               PROVE  open'[c] /\ keys'[c]
    BY DEF SwitchStoresKeys
  <2>1. g # f /\ g \in Running(c) /\ call'[g] = call[g]
    BY <1>b
  <2>2. c # d
    BY <1>0, <2>1 DEF OneSettingsCall, SettingsOps, SyncInv
  <2> QED BY <1>a, <2>1, <2>2 DEF SwitchStoresKeys, SyncInv
<1>7. ASSUME NEW c \in Devices, c # d PROVE LoggingOut(c)' <=> LoggingOut(c)
  BY <1>7, <1>a, <1>0 DEF LoggingOut, Running, Idle
<1>8. ~LoggingOut(d)'
  BY <1>0, <1>b DEF LoggingOut, OneSettingsCall, SettingsOps, SyncInv
<1>9. NothingAfterLogout' /\ ClosedOwesNothing'
  BY <1>7, <1>8, <1>a DEF NothingAfterLogout, ClosedOwesNothing, SyncInv
<1>10. CredentialsArePersisted'
  BY <1>a DEF CredentialsArePersisted, SyncInv
<1>11. LogoutOnlyCloses'
  BY <1>a DEF LogoutOnlyCloses, Idle, SyncInv
<1> QED BY <1>1, <1>2, <1>3, <1>4, <1>5, <1>6, <1>9, <1>10, <1>11 DEF SyncInv

\* The new database after a logout is empty and has no keys.
LEMMA OnboardKeepsInv ==
    ASSUME SyncInv, NEW d \in Devices, Onboard(d)
    PROVE  SyncInv'
<1> USE ConstantsAssumption DEF disk, session, history, bounds, InFrame, At
<1>1. TypeOK'
  BY DEF Onboard, TypeOK, SyncInv
<1>2. CallsHaveDevice'
  BY DEF Onboard, CallsHaveDevice, SyncInv
<1>3. OwedIsKept'
  BY DEF Onboard, OwedIsKept, CallsCarryOwed, Carries, SyncInv
<1>4. CallsCarryOwed'
  BY DEF Onboard, CallsCarryOwed, Carries, OwedIsKept, Running, SyncInv
<1>5. OneSettingsCall'
  BY DEF Onboard, OneSettingsCall, SettingsOps, Running, SyncInv
<1>6. SwitchStoresKeys'
  BY DEF Onboard, SwitchStoresKeys, OneSettingsCall, SettingsOps, Running, SyncInv
<1>7. NothingAfterLogout' /\ ClosedOwesNothing' /\ LogoutOnlyCloses'
  <2>1. SameLogouts
    BY DEF Onboard, SameLogouts, Idle, TypeOK, LogoutOnlyCloses, SyncInv
  <2>2. ClosedShrinks
    BY DEF Onboard, ClosedShrinks, LoggingOut, SettingsBusy, SettingsOps,
        ClosedOwesNothing, SwitchStoresKeys, Running, TypeOK, SyncInv
  <2> QED BY <2>1, <2>2, ClosedStaysClosed
<1>8. CredentialsArePersisted'
  BY DEF Onboard, CredentialsArePersisted, SwitchStoresKeys, NothingAfterLogout,
      SyncInv
<1> QED BY <1>1, <1>2, <1>3, <1>4, <1>5, <1>6, <1>7, <1>8 DEF SyncInv

\* A switch that replaces gives up what is owed, one that merges takes it along.
LEMMA StartSwitchKeepsInv ==
    ASSUME SyncInv, NEW d \in Devices, NEW f \in Frames, NEW mode \in {"replace",
        "merge"}, StartSwitch(d, f, mode)
    PROVE  SyncInv'
<1> USE ConstantsAssumption DEF disk, session, history, bounds, InFrame, At
<1>1. TypeOK'
  <2>1. userOps' \in 0..MaxUserOps
    BY ConstantsAssumption DEF SyncInv, TypeOK, StartSwitch, UserOp
  <2>2. call' \in [Frames -> Call]
    BY DEF StartSwitch, Begin, Get, SettingsBusy, TypeOK, Call, Ops, Stages, SyncInv
  <2> QED BY <2>1, <2>2 DEF StartSwitch, SettingsBusy, TypeOK, Statuses, SyncInv
<1>2. CallsHaveDevice'
  BY DEF StartSwitch, UserOp, Begin, Get, SettingsBusy, CallsHaveDevice, SyncInv
<1>3. OwedIsKept'
  BY DEF StartSwitch, UserOp, Begin, Get, SettingsBusy, OwedIsKept, CallsCarryOwed,
      Carries, SyncInv
<1>4. CallsCarryOwed'
  BY DEF StartSwitch, UserOp, Begin, Get, SettingsBusy, CallsCarryOwed, Carries,
      OwedIsKept, TypeOK, Running, SyncInv
<1>5. OneSettingsCall'
  BY DEF StartSwitch, UserOp, Begin, Get, SettingsBusy, OneSettingsCall, SettingsOps,
      Running, SyncInv
<1>6. SwitchStoresKeys'
  BY DEF StartSwitch, UserOp, Begin, Get, SettingsBusy, SwitchStoresKeys,
      OneSettingsCall, SettingsOps, Running, SyncInv
<1>7. NothingAfterLogout' /\ ClosedOwesNothing' /\ LogoutOnlyCloses'
  <2>1. SameLogouts
    BY DEF StartSwitch, UserOp, Begin, Get, SettingsBusy, SameLogouts, Idle, TypeOK,
        LogoutOnlyCloses, SyncInv
  <2>2. ClosedShrinks
    BY DEF StartSwitch, UserOp, Begin, Get, SettingsBusy, ClosedShrinks, LoggingOut,
        SettingsOps, ClosedOwesNothing, SwitchStoresKeys, Running, TypeOK, SyncInv
  <2> QED BY <2>1, <2>2, ClosedStaysClosed
<1>8. CredentialsArePersisted'
  BY DEF StartSwitch, UserOp, Begin, Get, SettingsBusy, CredentialsArePersisted,
      SwitchStoresKeys, NothingAfterLogout, SyncInv
<1> QED BY <1>1, <1>2, <1>3, <1>4, <1>5, <1>6, <1>7, <1>8 DEF SyncInv

\* A settings call keeps a logout from being in progress on its device.
LEMMA SettingsExcludeLogout ==
    ASSUME SyncInv, NEW f \in Frames, call[f].op \in SettingsOps \ {"logout"}
    PROVE  call[f].dev \in Devices /\ ~LoggingOut(call[f].dev)
<1>1. call[f].dev \in Devices /\ f \in Running(call[f].dev)
  BY DEF SyncInv, CallsHaveDevice, Running, InFrame, SettingsOps
<1> QED BY <1>1 DEF SyncInv, OneSettingsCall, LoggingOut, InFrame, SettingsOps

\* The new database of a switch holds what the device owed, and the keys are stored.
LEMMA SwitchAppliesKeepsInv ==
    ASSUME SyncInv, NEW f \in Frames, SwitchApplies(f)
    PROVE  SyncInv'
<1> USE ConstantsAssumption DEF disk, session, history, bounds, InFrame, At
<1>1. TypeOK'
  BY DEF SwitchApplies, MoveTo, Moved, TypeOK, Call, Stages, SyncInv
<1>2. CallsHaveDevice'
  BY DEF SwitchApplies, MoveTo, Moved, CallsHaveDevice, SyncInv
<1>3. OwedIsKept'
  BY DEF SwitchApplies, MoveTo, Moved, OwedIsKept, CallsCarryOwed, Carries, Running,
      SyncInv
<1>4. CallsCarryOwed'
  BY DEF SwitchApplies, MoveTo, Moved, CallsCarryOwed, Carries, OwedIsKept, Running,
      SyncInv
<1>5. OneSettingsCall'
  BY DEF SwitchApplies, MoveTo, Moved, OneSettingsCall, SettingsOps, Running, SyncInv
<1>6. SwitchStoresKeys'
  BY DEF SwitchApplies, MoveTo, Moved, SwitchStoresKeys, OneSettingsCall, SettingsOps,
      TypeOK, Running, SyncInv
<1>7. NothingAfterLogout' /\ ClosedOwesNothing' /\ LogoutOnlyCloses'
  <2>1. SameLogouts
    BY DEF SwitchApplies, MoveTo, Moved, SameLogouts, Idle, TypeOK, LogoutOnlyCloses, SyncInv
  <2>2. call[f].dev \in Devices /\ ~LoggingOut(call[f].dev)
    BY SettingsExcludeLogout DEF SwitchApplies, SettingsOps
  <2>3. ClosedShrinks
    BY <2>2 DEF SwitchApplies, ClosedShrinks, TypeOK, SyncInv
  <2> QED BY <2>1, <2>3, ClosedStaysClosed
<1>8. CredentialsArePersisted'
  BY DEF SwitchApplies, MoveTo, Moved, CredentialsArePersisted, SwitchStoresKeys,
      NothingAfterLogout, SyncInv
<1> QED BY <1>1, <1>2, <1>3, <1>4, <1>5, <1>6, <1>7, <1>8 DEF SyncInv

\* A switch that fails half-way gives up what the device owed.
LEMMA SwitchBreaksKeepsInv ==
    ASSUME SyncInv, NEW f \in Frames, SwitchBreaks(f)
    PROVE  SyncInv'
<1> USE ConstantsAssumption DEF disk, session, history, bounds, InFrame, At
<1>1. TypeOK'
  <2>1. call[f].dev \in Devices
    BY DEF SwitchBreaks, SyncInv, CallsHaveDevice
  <2>2. faults' \in 0..MaxFaults
    BY DEF SwitchBreaks, SyncInv, TypeOK
  <2>3. call' \in [Frames -> Call]
    BY DEF SwitchBreaks, MoveTo, Moved, SyncInv, TypeOK, Call, Stages
  <2> QED BY <2>1, <2>2, <2>3 DEF SwitchBreaks, SyncInv, TypeOK
<1>2. CallsHaveDevice'
  BY DEF SwitchBreaks, MoveTo, Moved, CallsHaveDevice, SyncInv
<1>3. OwedIsKept'
  BY DEF SwitchBreaks, MoveTo, Moved, OwedIsKept, CallsCarryOwed, Carries, TypeOK,
      SyncInv
<1>4. CallsCarryOwed'
  BY DEF SwitchBreaks, MoveTo, Moved, CallsCarryOwed, Carries, OwedIsKept, Running,
      SyncInv
<1>5. OneSettingsCall'
  BY DEF SwitchBreaks, MoveTo, Moved, OneSettingsCall, SettingsOps, Running, SyncInv
<1>6. SwitchStoresKeys'
  BY DEF SwitchBreaks, MoveTo, Moved, SwitchStoresKeys, OneSettingsCall, SettingsOps,
      Running, SyncInv
<1>7. NothingAfterLogout' /\ ClosedOwesNothing' /\ LogoutOnlyCloses'
  <2>1. SameLogouts
    BY DEF SwitchBreaks, MoveTo, Moved, SameLogouts, Idle, TypeOK, LogoutOnlyCloses, SyncInv
  <2>2. call[f].dev \in Devices /\ ~LoggingOut(call[f].dev)
    BY SettingsExcludeLogout DEF SwitchBreaks, SettingsOps
  <2>3. ClosedShrinks
    BY <2>2 DEF SwitchBreaks, ClosedShrinks, TypeOK, SyncInv
  <2> QED BY <2>1, <2>3, ClosedStaysClosed
<1>8. CredentialsArePersisted'
  BY DEF SwitchBreaks, MoveTo, Moved, CredentialsArePersisted, SwitchStoresKeys,
      NothingAfterLogout, SyncInv
<1> QED BY <1>1, <1>2, <1>3, <1>4, <1>5, <1>6, <1>7, <1>8 DEF SyncInv

\* The credentials of a switch come after its keys.
LEMMA SwitchSettlesKeepsInv ==
    ASSUME SyncInv, NEW f \in Frames, SwitchSettles(f)
    PROVE  SyncInv'
<1> USE ConstantsAssumption DEF disk, session, history, bounds, InFrame, At
<1>1. TypeOK'
  BY DEF SwitchSettles, Return, TypeOK, Call, Idle, Ops, Stages, Statuses, SyncInv
<1>2. CallsHaveDevice'
  BY DEF SwitchSettles, Return, CallsHaveDevice, Idle, SyncInv
<1>3. OwedIsKept'
  BY DEF SwitchSettles, Return, OwedIsKept, CallsCarryOwed, Carries, SyncInv
<1>4. CallsCarryOwed'
  BY DEF SwitchSettles, Return, CallsCarryOwed, Carries, OwedIsKept, Idle, Running,
      SyncInv
<1>5. OneSettingsCall'
  BY DEF SwitchSettles, Return, OneSettingsCall, SettingsOps, Idle, Running, SyncInv
<1>6. SwitchStoresKeys'
  BY DEF SwitchSettles, Return, SwitchStoresKeys, OneSettingsCall, SettingsOps, Idle,
      Running, SyncInv
<1>7. NothingAfterLogout' /\ ClosedOwesNothing' /\ LogoutOnlyCloses'
  <2>1. SameLogouts
    BY DEF SwitchSettles, Return, Running, SameLogouts, Idle, TypeOK, LogoutOnlyCloses, SyncInv
  <2>2. ClosedShrinks
    BY DEF SwitchSettles, Return, Running, ClosedShrinks, LoggingOut, SettingsBusy,
        SettingsOps, ClosedOwesNothing, SwitchStoresKeys, TypeOK, SyncInv
  <2> QED BY <2>1, <2>2, ClosedStaysClosed
<1>8. CredentialsArePersisted'
  BY DEF SwitchSettles, Return, CredentialsArePersisted, SwitchStoresKeys,
      NothingAfterLogout, Running, SyncInv
<1> QED BY <1>1, <1>2, <1>3, <1>4, <1>5, <1>6, <1>7, <1>8 DEF SyncInv

\* A reload drops the calls, keeps the disk (a logout cut short may have deleted it),
\* and pulls first when there are keys.
LEMMA ReloadKeepsInv ==
    ASSUME SyncInv, NEW d \in Devices, NEW f \in Frames, Reload(d, f)
    PROVE  SyncInv'
<1> USE ConstantsAssumption DEF disk, session, history, bounds, InFrame, At
<1>0. PICK data \in {local[d], {}} :
         /\ local' = [local EXCEPT ![d] = data]
         /\ data = local[d] \/ LoggingOut(d)
         /\ call' = IF keys[d]
                    THEN [Abandon(d) EXCEPT ![f] = PullCall(d, TRUE, data, 0)]
                    ELSE Abandon(d)
  BY DEF Reload
<1>a. /\ UNCHANGED <<owed, uploaded, pending, keys>>
      /\ open' = [open EXCEPT ![d] = TRUE] /\ creds' = [creds EXCEPT ![d] = keys[d]]
      /\ local'[d] = data /\ \A c \in Devices \ {d} : local'[c] = local[c]
      /\ data \in SUBSET Edits
      /\ LoggingOut(d) => owed[d] = {}
  BY <1>0 DEF Reload, ClosedOwesNothing, TypeOK, SyncInv
<1>b. PICK p : p = PullCall(d, TRUE, data, 0)
  OBVIOUS
<1>c. /\ p.op = "pull" /\ p.dev = d /\ p \in Call
      /\ \/ p.stage = "put" /\ p.snap = data
         \/ p.stage = "get" /\ ~pending[d]
  <2>1. CASE pending[d]
    <3>1. p = [op |-> "pull", dev |-> d, stage |-> "put", snap |-> data, tag |-> 0]
      BY <1>b, <2>1 DEF PullCall, Upload, Put
    <3> QED BY <1>a, <3>1 DEF Call, Ops, Stages
  <2>2. CASE ~pending[d]
    <3>1. p = [op |-> "pull", dev |-> d, stage |-> "get", snap |-> {}, tag |-> 0]
      BY <1>b, <2>2 DEF PullCall, Get
    <3> QED BY <2>2, <3>1 DEF Call, Ops, Stages
  <2> QED BY <2>1, <2>2
<1>d. \A g \in Frames :
        \/ call'[g] = call[g] /\ g \notin Running(d)
        \/ call'[g] = Idle
        \/ call'[g].op = "orphan" /\ call'[g].dev = d
        \/ g = f /\ call'[g] = p
  BY <1>0, <1>b DEF Abandon, TypeOK, SyncInv
<1>e. ASSUME NEW c \in Devices, NEW g \in Running(c)'
      PROVE  \/ c # d /\ g \in Running(c) /\ call'[g] = call[g]
             \/ c = d /\ g = f /\ call'[g] = p
  BY <1>c, <1>d, ConstantsAssumption DEF Running, Idle
<1>1. TypeOK'
  <2>1. call' \in [Frames -> Call]
    <3>1. Abandon(d) \in [Frames -> Call]
      BY DEF Abandon, TypeOK, Call, Idle, Ops, Stages, SyncInv
    <3>3. CASE keys[d]
      BY <1>0, <1>b, <1>c, <3>1, <3>3
    <3>4. CASE ~keys[d]
      BY <1>0, <3>1, <3>4
    <3> QED BY <3>3, <3>4
  <2>2. reloads' \in 0..MaxReloads
    BY ConstantsAssumption DEF Reload, TypeOK, SyncInv
  <2>3. /\ open' \in [Devices -> BOOLEAN] /\ local' \in [Devices -> SUBSET Edits]
        /\ timer' \in [Devices -> BOOLEAN] /\ creds' \in [Devices -> BOOLEAN]
        /\ status' \in [Devices -> Statuses] /\ etag' \in [Devices -> Nat]
    BY <1>0, <1>a DEF Reload, TypeOK, Statuses, SyncInv
  <2> QED BY <2>1, <2>2, <2>3 DEF Reload, TypeOK, SyncInv
<1>2. CallsHaveDevice'
  <2> SUFFICES ASSUME NEW g \in Frames, call'[g].op # "none" PROVE call'[g].dev \in Devices
    BY DEF CallsHaveDevice
  <2>1. CASE call'[g] = call[g]
    BY <2>1 DEF CallsHaveDevice, SyncInv
  <2>2. CASE g = f /\ call'[g] = p
    BY <1>c, <2>2
  <2>3. CASE call'[g].op = "orphan" /\ call'[g].dev = d
    BY <2>3
  <2> QED BY <1>d, <2>1, <2>2, <2>3 DEF Idle
<1>3. OwedIsKept'
  BY <1>0, <1>a DEF OwedIsKept, SyncInv
<1>4. CallsCarryOwed'
  <2> SUFFICES ASSUME NEW c \in Devices, NEW g \in Running(c)' PROVE Carries(c, g)'
    BY DEF CallsCarryOwed
  <2>1. CASE c # d
    <3>1. Carries(c, g) /\ call'[g] = call[g]
      BY <1>e, <2>1 DEF CallsCarryOwed, SyncInv
    <3> QED BY <1>a, <3>1 DEF Carries
  <2>2. CASE c = d
    <3>1. call'[g] = p
      BY <1>e, <2>2
    <3>2. owed[d] \subseteq uploaded \cup data
      BY <1>0, <1>a DEF OwedIsKept, SyncInv
    <3>3. ~pending[d] => owed[d] \subseteq uploaded
      BY DEF OwedIsKept, SyncInv
    <3>4. owed'[d] = owed[d] /\ uploaded' = uploaded
      BY <1>a
    <3>5. CASE p.stage = "put" /\ p.snap = data
      BY <1>c, <2>2, <3>1, <3>2, <3>4, <3>5 DEF Carries
    <3>6. CASE p.stage = "get" /\ ~pending[d]
      BY <1>c, <2>2, <3>1, <3>3, <3>4, <3>6 DEF Carries
    <3> QED BY <1>c, <3>5, <3>6
  <2> QED BY <2>1, <2>2
<1>5. OneSettingsCall'
  BY <1>c, <1>e DEF OneSettingsCall, SettingsOps, SyncInv
<1>6. SwitchStoresKeys'
  BY <1>a, <1>c, <1>e DEF SwitchStoresKeys, SyncInv
<1>7. ASSUME NEW c \in Devices, c # d PROVE LoggingOut(c)' <=> LoggingOut(c)
  <2>1. ASSUME NEW g \in Running(c)' PROVE g \in Running(c) /\ call'[g] = call[g]
    BY <1>7, <1>e
  <2>2. ASSUME NEW g \in Running(c) PROVE call'[g] = call[g]
    <3>1. g \in Frames /\ g \notin Running(d)
      BY <1>7 DEF Running
    <3>2. Abandon(d)[g] = call[g] /\ call[g] # Idle
      BY <3>1, ConstantsAssumption DEF Abandon, Running, Idle
    <3>3. g # f
      BY <3>2 DEF Reload
    <3> QED BY <1>0, <3>1, <3>2, <3>3
  <2>3. ASSUME NEW g \in Running(c) PROVE g \in Running(c)'
    BY <2>2 DEF Running
  <2> QED BY <2>1, <2>2, <2>3 DEF LoggingOut
<1>8. ~LoggingOut(d)'
  BY <1>c, <1>e DEF LoggingOut
<1>9. NothingAfterLogout' /\ ClosedOwesNothing'
  BY <1>7, <1>8, <1>a DEF NothingAfterLogout, ClosedOwesNothing, TypeOK, SyncInv
<1>10. CredentialsArePersisted'
  BY <1>a DEF CredentialsArePersisted, TypeOK, SyncInv
<1>11. LogoutOnlyCloses'
  BY <1>c, <1>d DEF LogoutOnlyCloses, Idle, SyncInv
<1> QED BY <1>1, <1>2, <1>3, <1>4, <1>5, <1>6, <1>9, <1>10, <1>11 DEF SyncInv

\* A vault that the server takes is uploaded, and no device changes.
LEMMA HandlePutKeepsInv ==
    ASSUME SyncInv, NEW f \in Frames, HandlePut(f)
    PROVE  SyncInv'
<1> USE ConstantsAssumption DEF disk, session, history, bounds, InFrame, At
<1>0. /\ call' \in [Frames -> Call]
      /\ \A g \in Frames : call'[g].op # "none" =>
             call[g].op # "none" /\ call'[g].dev = call[g].dev
      /\ \A d \in Devices : \A g \in Running(d)' :
             /\ g \in Running(d)
             /\ call'[g] = IF g = f THEN Moved(f, "stored", call[f].snap,
                 server.writes + 1)
                                    ELSE call[g]
      /\ SameLogouts
  BY AnswerMovesOneFrame DEF LogoutOnlyCloses, HandlePut, SyncInv, Stages, TypeOK
<1>1. TypeOK'
  BY <1>0 DEF HandlePut, StoreVault, SyncInv, TypeOK, Call
<1>2. CallsHaveDevice'
  BY <1>0 DEF SyncInv, CallsHaveDevice
<1>3. OwedIsKept'
  BY DEF HandlePut, StoreVault, SyncInv, OwedIsKept
<1>4. CallsCarryOwed'
  BY <1>0 DEF HandlePut, StoreVault, SyncInv, CallsCarryOwed, Carries, Moved
<1>5. OneSettingsCall'
  BY <1>0 DEF SyncInv, OneSettingsCall, Moved
<1>6. SwitchStoresKeys'
  BY <1>0 DEF HandlePut, SyncInv, SwitchStoresKeys, Moved
<1>7. NothingAfterLogout' /\ ClosedOwesNothing' /\ LogoutOnlyCloses'
  <2>1. ClosedShrinks
    BY DEF HandlePut, ClosedShrinks, SyncInv
  <2> QED BY <1>0, <2>1, ClosedStaysClosed
<1>8. CredentialsArePersisted'
  BY DEF HandlePut, SyncInv, CredentialsArePersisted
<1> QED BY <1>1, <1>2, <1>3, <1>4, <1>5, <1>6, <1>7, <1>8 DEF SyncInv

\* A download moves the call that asked for it; a merge adds what it remembered.
LEMMA HandleGetKeepsInv ==
    ASSUME SyncInv, NEW f \in Frames, HandleGet(f)
    PROVE  SyncInv'
<1> USE ConstantsAssumption DEF disk, session, history, bounds, InFrame, At
<1>1. TypeOK'
  BY DEF HandleGet, MoveTo, Moved, TypeOK, Call, Stages, SyncInv
<1>2. CallsHaveDevice'
  BY DEF HandleGet, MoveTo, Moved, CallsHaveDevice, TypeOK, SyncInv
<1>3. OwedIsKept'
  BY DEF HandleGet, MoveTo, Moved, OwedIsKept, CallsCarryOwed, Carries, SyncInv
<1>4. CallsCarryOwed'
  <2>1. /\ call'[f].op = call[f].op /\ call'[f].dev = call[f].dev
        /\ call'[f].stage \in {"failed", "notModified", "vault"}
        /\ call[f].snap \subseteq call'[f].snap
    <3>1. CASE server.etag = 0
      BY <3>1 DEF HandleGet, MoveTo, Moved, SyncInv, TypeOK
    <3>2. CASE server.etag # 0 /\ call[f].tag = server.etag
      BY <3>2 DEF HandleGet, MoveTo, Moved, SyncInv, TypeOK
    <3>3. CASE server.etag # 0 /\ call[f].tag # server.etag
      BY <3>3 DEF HandleGet, Moved, SyncInv, TypeOK
    <3> QED BY <3>1, <3>2, <3>3
  <2>2. \A g \in Frames : g # f => call'[g] = call[g]
    BY DEF HandleGet, MoveTo, SyncInv, TypeOK
  <2>3. ASSUME NEW d \in Devices, NEW g \in Running(d)' PROVE g \in Running(d)
    BY <2>1, <2>2 DEF Running
  <2>4. ASSUME NEW d \in Devices, NEW g \in Running(d)', g # f PROVE Carries(d, g)'
    BY <2>2, <2>3, <2>4 DEF HandleGet, SyncInv, CallsCarryOwed, Carries, Running
  <2>5. ASSUME NEW d \in Devices, f \in Running(d)' PROVE Carries(d, f)'
    <3>1. f \in Running(d) /\ call[f].stage = "get" /\ Carries(d, f)
      BY <2>3, <2>5 DEF HandleGet, SyncInv, CallsCarryOwed
    <3> QED BY <2>1, <3>1 DEF HandleGet, Carries
  <2> QED BY <2>4, <2>5 DEF CallsCarryOwed, Running
<1>5. OneSettingsCall'
  BY SMTT(30) DEF HandleGet, MoveTo, Moved, OneSettingsCall, SettingsOps, TypeOK, Call, Idle,
      Running, CallsHaveDevice, SyncInv
<1>6. SwitchStoresKeys'
  BY SMTT(30) DEF HandleGet, MoveTo, Moved, SwitchStoresKeys, OneSettingsCall, SettingsOps,
      TypeOK, Call, Idle, Running, CallsHaveDevice, SyncInv
<1>7. NothingAfterLogout' /\ ClosedOwesNothing' /\ LogoutOnlyCloses'
  <2>1. SameLogouts
    BY DEF HandleGet, MoveTo, Moved, SameLogouts, Idle, TypeOK, LogoutOnlyCloses, SyncInv
  <2>2. ClosedShrinks
    BY DEF HandleGet, MoveTo, Moved, ClosedShrinks, LoggingOut, SettingsBusy,
        SettingsOps, ClosedOwesNothing, SwitchStoresKeys, Running, TypeOK, SyncInv
  <2> QED BY <2>1, <2>2, ClosedStaysClosed
<1>8. CredentialsArePersisted'
  BY DEF HandleGet, MoveTo, Moved, CredentialsArePersisted, SwitchStoresKeys,
      NothingAfterLogout, SyncInv
<1> QED BY <1>1, <1>2, <1>3, <1>4, <1>5, <1>6, <1>7, <1>8 DEF SyncInv

\* A deletion changes the server and the call that asked for it.
LEMMA HandleDeleteKeepsInv ==
    ASSUME SyncInv, NEW f \in Frames, HandleDelete(f)
    PROVE  SyncInv'
<1> USE ConstantsAssumption DEF disk, session, history, bounds, InFrame, At
<1>0. /\ call' \in [Frames -> Call]
      /\ \A g \in Frames : call'[g].op # "none" =>
             call[g].op # "none" /\ call'[g].dev = call[g].dev
      /\ \A d \in Devices : \A g \in Running(d)' :
             /\ g \in Running(d)
             /\ call'[g] = IF g = f THEN Moved(f, "deleted", call[f].snap, 0)
                                    ELSE call[g]
      /\ SameLogouts
  BY AnswerMovesOneFrame DEF LogoutOnlyCloses, HandleDelete, SyncInv, Stages
<1>1. TypeOK'
  BY <1>0 DEF HandleDelete, SyncInv, TypeOK
<1>2. CallsHaveDevice'
  BY <1>0 DEF SyncInv, CallsHaveDevice
<1>3. OwedIsKept'
  BY DEF HandleDelete, SyncInv, OwedIsKept
<1>4. CallsCarryOwed'
  BY <1>0 DEF HandleDelete, SyncInv, CallsCarryOwed, Carries, Moved
<1>5. OneSettingsCall'
  BY <1>0 DEF SyncInv, OneSettingsCall, Moved
<1>6. SwitchStoresKeys'
  BY <1>0 DEF HandleDelete, SyncInv, SwitchStoresKeys, Moved
<1>7. NothingAfterLogout' /\ ClosedOwesNothing' /\ LogoutOnlyCloses'
  <2>1. ClosedShrinks
    BY DEF HandleDelete, ClosedShrinks, SyncInv
  <2> QED BY <1>0, <2>1, ClosedStaysClosed
<1>8. CredentialsArePersisted'
  BY DEF HandleDelete, SyncInv, CredentialsArePersisted
<1> QED BY <1>1, <1>2, <1>3, <1>4, <1>5, <1>6, <1>7, <1>8 DEF SyncInv

\* A request that fails moves the call to its failure.
LEMMA RequestFailsKeepsInv ==
    ASSUME SyncInv, NEW f \in Frames, RequestFails(f)
    PROVE  SyncInv'
<1> USE ConstantsAssumption DEF disk, session, history, bounds, InFrame, At
<1>0. /\ call' \in [Frames -> Call]
      /\ \A g \in Frames : call'[g].op # "none" =>
             call[g].op # "none" /\ call'[g].dev = call[g].dev
      /\ \A d \in Devices : \A g \in Running(d)' :
             /\ g \in Running(d)
             /\ call'[g] = IF g = f THEN Moved(f, "failed", call[f].snap, 0)
                                    ELSE call[g]
      /\ SameLogouts
  BY AnswerMovesOneFrame DEF LogoutOnlyCloses, RequestFails, SyncInv, Stages
<1>1. TypeOK'
  BY <1>0 DEF RequestFails, SyncInv, TypeOK
<1>2. CallsHaveDevice'
  BY <1>0 DEF SyncInv, CallsHaveDevice
<1>3. OwedIsKept'
  BY DEF RequestFails, SyncInv, OwedIsKept
<1>4. CallsCarryOwed'
  BY <1>0 DEF RequestFails, SyncInv, CallsCarryOwed, Carries, Moved
<1>5. OneSettingsCall'
  BY <1>0 DEF SyncInv, OneSettingsCall, Moved
<1>6. SwitchStoresKeys'
  BY <1>0 DEF RequestFails, SyncInv, SwitchStoresKeys, Moved
<1>7. NothingAfterLogout' /\ ClosedOwesNothing' /\ LogoutOnlyCloses'
  <2>1. ClosedShrinks
    BY DEF RequestFails, ClosedShrinks, SyncInv
  <2> QED BY <1>0, <2>1, ClosedStaysClosed
<1>8. CredentialsArePersisted'
  BY DEF RequestFails, SyncInv, CredentialsArePersisted
<1> QED BY <1>1, <1>2, <1>3, <1>4, <1>5, <1>6, <1>7, <1>8 DEF SyncInv

\* A vault whose answer is lost has been uploaded all the same.
LEMMA AnswerLostKeepsInv ==
    ASSUME SyncInv, NEW f \in Frames, AnswerLost(f)
    PROVE  SyncInv'
<1> USE ConstantsAssumption DEF disk, session, history, bounds, InFrame, At
<1>0. /\ call' \in [Frames -> Call]
      /\ \A g \in Frames : call'[g].op # "none" =>
             call[g].op # "none" /\ call'[g].dev = call[g].dev
      /\ \A d \in Devices : \A g \in Running(d)' :
             /\ g \in Running(d)
             /\ call'[g] = IF g = f THEN Moved(f, "failed", call[f].snap, 0)
                                    ELSE call[g]
      /\ SameLogouts
  BY AnswerMovesOneFrame DEF LogoutOnlyCloses, AnswerLost, SyncInv, Stages
<1>1. TypeOK'
  BY <1>0 DEF AnswerLost, StoreVault, SyncInv, TypeOK, Call
<1>2. CallsHaveDevice'
  BY <1>0 DEF SyncInv, CallsHaveDevice
<1>3. OwedIsKept'
  BY DEF AnswerLost, StoreVault, SyncInv, OwedIsKept
<1>4. CallsCarryOwed'
  BY <1>0 DEF AnswerLost, StoreVault, SyncInv, CallsCarryOwed, Carries, Moved
<1>5. OneSettingsCall'
  BY <1>0 DEF SyncInv, OneSettingsCall, Moved
<1>6. SwitchStoresKeys'
  BY <1>0 DEF AnswerLost, SyncInv, SwitchStoresKeys, Moved
<1>7. NothingAfterLogout' /\ ClosedOwesNothing' /\ LogoutOnlyCloses'
  <2>1. ClosedShrinks
    BY DEF AnswerLost, ClosedShrinks, SyncInv
  <2> QED BY <1>0, <2>1, ClosedStaysClosed
<1>8. CredentialsArePersisted'
  BY DEF AnswerLost, SyncInv, CredentialsArePersisted
<1> QED BY <1>1, <1>2, <1>3, <1>4, <1>5, <1>6, <1>7, <1>8 DEF SyncInv

\* A deletion whose answer is lost changes the server and fails for the call.
LEMMA DeletionLostKeepsInv ==
    ASSUME SyncInv, NEW f \in Frames, DeletionLost(f)
    PROVE  SyncInv'
<1> USE ConstantsAssumption DEF disk, session, history, bounds, InFrame, At
<1>0. /\ call' \in [Frames -> Call]
      /\ \A g \in Frames : call'[g].op # "none" =>
             call[g].op # "none" /\ call'[g].dev = call[g].dev
      /\ \A d \in Devices : \A g \in Running(d)' :
             /\ g \in Running(d)
             /\ call'[g] = IF g = f THEN Moved(f, "failed", call[f].snap, 0)
                                    ELSE call[g]
      /\ SameLogouts
  BY AnswerMovesOneFrame DEF LogoutOnlyCloses, DeletionLost, SyncInv, Stages
<1>1. TypeOK'
  BY <1>0 DEF DeletionLost, SyncInv, TypeOK
<1>2. CallsHaveDevice'
  BY <1>0 DEF SyncInv, CallsHaveDevice
<1>3. OwedIsKept'
  BY DEF DeletionLost, SyncInv, OwedIsKept
<1>4. CallsCarryOwed'
  BY <1>0 DEF DeletionLost, SyncInv, CallsCarryOwed, Carries, Moved
<1>5. OneSettingsCall'
  BY <1>0 DEF SyncInv, OneSettingsCall, Moved
<1>6. SwitchStoresKeys'
  BY <1>0 DEF DeletionLost, SyncInv, SwitchStoresKeys, Moved
<1>7. NothingAfterLogout' /\ ClosedOwesNothing' /\ LogoutOnlyCloses'
  <2>1. ClosedShrinks
    BY DEF DeletionLost, ClosedShrinks, SyncInv
  <2> QED BY <1>0, <2>1, ClosedStaysClosed
<1>8. CredentialsArePersisted'
  BY DEF DeletionLost, SyncInv, CredentialsArePersisted
<1> QED BY <1>1, <1>2, <1>3, <1>4, <1>5, <1>6, <1>7, <1>8 DEF SyncInv

\* Initially nothing is owed and no call runs.
LEMMA InitSatisfiesInv ==
    ASSUME Init
    PROVE  SyncInv
<1>1. PICK linked \in SUBSET Devices :
          /\ server = IF linked = {} THEN [etag |-> 0, data |-> {}, writes |-> 0]
                                     ELSE [etag |-> 1, data |-> {}, writes |-> 1]
          /\ keys = [d \in Devices |-> d \in linked]
          /\ creds = [d \in Devices |-> d \in linked]
          /\ status = [d \in Devices |-> IF d \in linked THEN "synced" ELSE "local-only"]
          /\ etag = [d \in Devices |-> IF d \in linked THEN 1 ELSE 0]
  BY DEF Init
<1>2. call = [f \in Frames |-> Idle] /\ owed = [d \in Devices |-> {}]
  BY DEF Init
<1>3. TypeOK
  <2>1. server \in [etag : Nat, data : SUBSET Edits, writes : Nat]
    BY <1>1
  <2>2. call \in [Frames -> Call]
    BY <1>2 DEF Idle, Call, Ops, Stages
  <2>3. /\ keys \in [Devices -> BOOLEAN] /\ creds \in [Devices -> BOOLEAN]
        /\ status \in [Devices -> Statuses] /\ etag \in [Devices -> Nat]
    BY <1>1 DEF Statuses
  <2>4. /\ open \in [Devices -> BOOLEAN] /\ local \in [Devices -> SUBSET Edits]
        /\ pending \in [Devices -> BOOLEAN] /\ timer \in [Devices -> BOOLEAN]
        /\ queued \in [Devices -> SUBSET Edits] /\ owed \in [Devices -> SUBSET Edits]
    BY DEF Init
  <2>5. /\ made \in SUBSET Edits /\ uploaded \in SUBSET Edits
        /\ discarded \in SUBSET Edits /\ erased \in BOOLEAN
    BY DEF Init
  <2>6. faults \in 0..MaxFaults /\ reloads \in 0..MaxReloads /\ userOps \in 0..MaxUserOps
    BY ConstantsAssumption DEF Init
  <2> QED BY <2>1, <2>2, <2>3, <2>4, <2>5, <2>6 DEF TypeOK
<1>4. \A d \in Devices : Running(d) = {}
  BY <1>2, ConstantsAssumption DEF Running, Idle
<1>5. CallsHaveDevice /\ OwedIsKept
  BY <1>2 DEF CallsHaveDevice, OwedIsKept, Idle
<1>6. CallsCarryOwed /\ OneSettingsCall /\ SwitchStoresKeys
  BY <1>4 DEF CallsCarryOwed, OneSettingsCall, SwitchStoresKeys
<1>7. /\ NothingAfterLogout /\ CredentialsArePersisted
      /\ ClosedOwesNothing /\ LogoutOnlyCloses
  BY <1>1, <1>2, <1>4 DEF Init, NothingAfterLogout, CredentialsArePersisted,
      ClosedOwesNothing, LoggingOut, LogoutOnlyCloses, InFrame, Idle
<1> QED BY <1>3, <1>5, <1>6, <1>7 DEF SyncInv

\* A step that changes nothing.
LEMMA StutterKeepsInv ==
    ASSUME SyncInv, UNCHANGED vars
    PROVE  SyncInv'
<1> USE DEF vars, disk, session, history, bounds
<1>1. TypeOK' /\ CallsHaveDevice' /\ OwedIsKept' /\ CredentialsArePersisted'
  BY DEF SyncInv, TypeOK, CallsHaveDevice, OwedIsKept, CredentialsArePersisted
<1>2. CallsCarryOwed' /\ OneSettingsCall'
  BY DEF SyncInv, CallsCarryOwed, Carries, OneSettingsCall, Running, InFrame
<1>3. /\ SwitchStoresKeys' /\ NothingAfterLogout'
      /\ ClosedOwesNothing' /\ LogoutOnlyCloses'
  BY DEF SyncInv, SwitchStoresKeys, NothingAfterLogout, ClosedOwesNothing,
      LogoutOnlyCloses, LoggingOut, Running, InFrame, At
<1> QED BY <1>1, <1>2, <1>3 DEF SyncInv

\* Every step of the protocol keeps the invariant.
LEMMA NextKeepsInv ==
    ASSUME SyncInv, [Next]_vars
    PROVE  SyncInv'
<1>1. ASSUME NEW d \in Devices, UserStep(d) PROVE SyncInv'
  <2>1. CASE \E e \in Edits : Edit(d, e) \/ EditUnscheduled(d, e)
    BY <2>1, EditKeepsInv, EditUnscheduledKeepsInv
  <2>2. CASE EnableRejected(d) \/ DisableSync(d) \/ ScheduleLate(d) \/ Onboard(d)
    BY <2>2, EnableRejectedKeepsInv, DisableSyncKeepsInv, ScheduleLateKeepsInv,
       OnboardKeepsInv
  <2>3. CASE \E f \in Frames : StartResync(d, f) \/ StartEnable(d, f) \/ StartErase(d, f)
    BY <2>3, StartResyncKeepsInv, StartEnableKeepsInv, StartEraseKeepsInv
  <2>4. CASE \E f \in Frames : \E mode \in {"replace", "merge"} : StartSwitch(d, f, mode)
    BY <2>4, StartSwitchKeepsInv
  <2>5. CASE \E f \in Frames : StartLogout(d, f) \/ Reload(d, f)
    BY <2>5, StartLogoutKeepsInv, ReloadKeepsInv
  <2> QED BY <1>1, <2>1, <2>2, <2>3, <2>4, <2>5 DEF UserStep
<1>2. ASSUME NEW d \in Devices, TimerStep(d) \/ PullStep(d) PROVE SyncInv'
  BY <1>2, TimerFiresKeepsInv, StartPullKeepsInv DEF TimerStep, PullStep
<1>3. ASSUME NEW f \in Frames, Continue(f) PROVE SyncInv'
  <2>1. CASE PushStored(f) \/ FlushStored(f) \/ PullNotModified(f) \/ PullImports(f)
    BY <2>1, PushStoredKeepsInv, FlushStoredKeepsInv, PullNotModifiedKeepsInv,
       PullImportsKeepsInv
  <2>2. CASE PullSettles(f) \/ CallFails(f) \/ ResyncImports(f) \/ ResyncSettles(f)
    BY <2>2, PullSettlesKeepsInv, CallFailsKeepsInv, ResyncImportsKeepsInv,
       ResyncSettlesKeepsInv
  <2>3. CASE \/ EraseSettles(f) \/ LogoutSettles(f)
             \/ SwitchApplies(f) \/ SwitchSettles(f)
    BY <2>3, EraseSettlesKeepsInv, LogoutSettlesKeepsInv, SwitchAppliesKeepsInv,
       SwitchSettlesKeepsInv
  <2> QED BY <1>3, <2>1, <2>2, <2>3 DEF Continue
<1>4. ASSUME NEW f \in Frames, Serve(f) PROVE SyncInv'
  BY <1>4, HandlePutKeepsInv, HandleGetKeepsInv, HandleDeleteKeepsInv DEF Serve
<1>5. ASSUME NEW f \in Frames, Fault(f) PROVE SyncInv'
  BY <1>5, ImportFailsKeepsInv, SwitchBreaksKeepsInv, RequestFailsKeepsInv,
     AnswerLostKeepsInv, DeletionLostKeepsInv DEF Fault
<1>6. CASE UNCHANGED vars
  BY <1>6, StutterKeepsInv
<1> QED BY <1>1, <1>2, <1>3, <1>4, <1>5, <1>6 DEF Next

\* The inductive invariant holds in every reachable state, for any number of
\* devices, edits and concurrent calls, whatever requests fail.
THEOREM SyncInvariant == Spec => []SyncInv
<1>1. Init => SyncInv
  BY InitSatisfiesInv
<1>2. SyncInv /\ [Next]_vars => SyncInv'
  BY NextKeepsInv
<1> QED BY <1>1, <1>2, PTL DEF Spec

\* Type correctness of the sync protocol.
THEOREM TypeCorrect == Spec => []TypeOK
<1>1. SyncInv => TypeOK
  BY DEF SyncInv
<1> QED BY <1>1, SyncInvariant, PTL

\* No owed edit is lost: until the server has accepted a vault that contains it,
\* it is in its owner's database and the durable marker is set (push, pull,
\* enableSync, switchToExistingCloud, disableSync, reloads, lost answers).
THEOREM OwedEditsAreKept == Spec => []OwedIsKept
<1>1. SyncInv => OwedIsKept
  BY DEF SyncInv
<1> QED BY <1>1, SyncInvariant, PTL

\* pull() never imports over an owed edit that the cloud lacks: the flush comes
\* first, and a flush that fails ends the pull.
THEOREM PullFlushesFirst == Spec => []FlushBeforeImport
<1>1. SyncInv => FlushBeforeImport
  <2> SUFFICES ASSUME SyncInv, NEW f \in Frames, call[f].op = "pull",
                      call[f].stage \in {"vault", "imported"}
               PROVE  owed[call[f].dev] \subseteq uploaded
    BY DEF FlushBeforeImport
  <2>1. call[f].dev \in Devices /\ f \in Running(call[f].dev)
    BY DEF SyncInv, CallsHaveDevice, Running, InFrame
  <2> QED BY <2>1 DEF SyncInv, CallsCarryOwed, Carries, InFrame
<1> QED BY <1>1, SyncInvariant, PTL

\* A logout that has settled is final: no push, pull, restore or timer that was under way
\* when it began, or began while it waited for the deletion with the credentials still
\* set, leaves data, keys or credentials on the device.
THEOREM LogoutIsFinal == Spec => []NothingAfterLogout
<1>1. SyncInv => NothingAfterLogout
  BY DEF SyncInv
<1> QED BY <1>1, SyncInvariant, PTL

\* Credentials in memory always have their keys in localStorage.
THEOREM CredentialsSurviveReload == Spec => []CredentialsArePersisted
<1>1. SyncInv => CredentialsArePersisted
  BY DEF SyncInv
<1> QED BY <1>1, SyncInvariant, PTL
-----------------------------------------------------------------------------
(* The refinement: every step is one that the ledger allows.               *)

\* What a device has promised: the owed edits the cloud lacks.
Promised == [d \in Devices |-> owed[d] \ uploaded]

\* A device only promises what is in its database.
LEMMA PromisesAreLocal ==
    ASSUME SyncInv
    PROVE  /\ Promised \in [Devices -> SUBSET Edits]
           /\ \A d \in Devices : Promised[d] \subseteq local[d]
BY DEF SyncInv, TypeOK, OwedIsKept, Promised

\* A step that leaves the data of the devices, what is owed and what is in the cloud.
LEMMA LedgerStutters ==
    ASSUME UNCHANGED <<local, owed, uploaded>>
    PROVE  UNCHANGED Ledger!vars
BY DEF Ledger!vars

\* A step that only rewrites one device's data and keeps what it has promised.
LEMMA LedgerRewrites ==
    ASSUME SyncInv, NEW d \in Devices, NEW data \in SUBSET Edits,
           local' = [local EXCEPT ![d] = data], owed[d] \ uploaded \subseteq data,
           UNCHANGED <<owed, uploaded>>
    PROVE  Ledger!Next
<1>1. Ledger!Rewrite(d, data)
  BY DEF Ledger!Rewrite
<1> QED BY <1>1 DEF Ledger!Next

\* A step in which the user gives a device's data up.
LEMMA LedgerForfeits ==
    ASSUME SyncInv, NEW d \in Devices, NEW data \in SUBSET Edits,
           local' = [local EXCEPT ![d] = data], owed' = [owed EXCEPT ![d] = {}],
           UNCHANGED uploaded
    PROVE  Ledger!Next
<1>1. owed \in [Devices -> SUBSET Edits]
  BY DEF SyncInv, TypeOK
<1>2. [c \in Devices |-> owed'[c] \ uploaded'] = [Promised EXCEPT ![d] = {}]
  BY <1>1 DEF Promised
<1>3. Ledger!Forfeit(d, data)
  BY <1>2 DEF Ledger!Forfeit, Promised
<1> QED BY <1>3 DEF Ledger!Next

\* A step in which the server takes a vault.
LEMMA LedgerPublishes ==
    ASSUME SyncInv, NEW f \in Frames, uploaded' = uploaded \cup call[f].snap,
           UNCHANGED <<local, owed>>
    PROVE  Ledger!Next
<1>1. PICK data \in SUBSET Edits : data = call[f].snap
  BY DEF SyncInv, TypeOK, Call
<1>2. [d \in Devices |-> owed'[d] \ uploaded'] = [d \in Devices |-> Promised[d] \ data]
  BY <1>1 DEF Promised
<1>3. Ledger!Publish(data)
  BY <1>1, <1>2 DEF Ledger!Publish, Promised
<1> QED BY <1>3 DEF Ledger!Next

\* The protocol begins as the ledger does.
LEMMA InitIsLedgerInit == Init => Ledger!Init
<1> SUFFICES ASSUME Init PROVE Ledger!Init
  OBVIOUS
<1>1. /\ local = [d \in Devices |-> {}] /\ uploaded = {}
      /\ owed = [d \in Devices |-> {}]
  BY DEF Init
<1> QED BY <1>1 DEF Ledger!Init

\* What a call of a running tab that is about to replace the local data carries.
LEMMA RunsOnDevice ==
    ASSUME SyncInv, NEW f \in Frames, call[f].op \notin {"none", "orphan"}
    PROVE  call[f].dev \in Devices /\ f \in Running(call[f].dev) /\ Carries(call[f].dev, f)
<1>1. call[f].dev \in Devices
  BY DEF SyncInv, CallsHaveDevice
<1>2. f \in Running(call[f].dev)
  BY DEF Running, InFrame
<1> QED BY <1>1, <1>2 DEF SyncInv, CallsCarryOwed

\* Steps of the user.
LEMMA UserStepIsLedgerStep ==
    ASSUME SyncInv, NEW d \in Devices, UserStep(d)
    PROVE  [Ledger!Next]_(Ledger!vars)
<1> USE DEF disk, session, history, bounds
<1>1. /\ local \in [Devices -> SUBSET Edits] /\ owed \in [Devices -> SUBSET Edits]
      /\ \A e \in owed[d] : e \in uploaded \/ e \in local[d]
  BY DEF SyncInv, TypeOK, OwedIsKept
<1>2. ASSUME NEW e \in Edits, Edit(d, e) PROVE Ledger!Next
  <2>1. local' = [local EXCEPT ![d] = local[d] \cup {e}] /\ uploaded' = uploaded
    BY <1>2 DEF Edit
  <2>2. CASE owed' = owed
    <3>1. owed[d] \ uploaded \subseteq local[d] \cup {e} /\ local[d] \cup {e} \in SUBSET Edits
      BY <1>1
    <3> QED BY <2>1, <2>2, <3>1, LedgerRewrites
  <2>3. CASE owed' = [owed EXCEPT ![d] = owed[d] \cup {e}] /\ e \in uploaded
    <3>1. [c \in Devices |-> owed'[c] \ uploaded'] = Promised
      BY <1>1, <2>1, <2>3 DEF Promised
    <3>2. owed[d] \ uploaded \subseteq local[d] \cup {e} /\ local[d] \cup {e} \in SUBSET Edits
      BY <1>1
    <3>3. Ledger!Rewrite(d, local[d] \cup {e})
      BY <2>1, <3>1, <3>2 DEF Ledger!Rewrite, Promised
    <3> QED BY <3>2, <3>3 DEF Ledger!Next
  <2>4. CASE owed' = [owed EXCEPT ![d] = owed[d] \cup {e}] /\ e \notin uploaded
    <3>1. [c \in Devices |-> owed'[c] \ uploaded'] = [Promised EXCEPT ![d] = @ \cup {e}]
      BY <1>1, <2>1, <2>4 DEF Promised
    <3>2. Ledger!Promise(d, e)
      BY <2>1, <2>4, <3>1 DEF Ledger!Promise, Promised
    <3> QED BY <3>2 DEF Ledger!Next
  <2>5. owed' = owed \/ owed' = [owed EXCEPT ![d] = owed[d] \cup {e}]
    BY <1>1, <1>2 DEF Edit
  <2> QED BY <2>2, <2>3, <2>4, <2>5
<1>3. ASSUME NEW e \in Edits, EditUnscheduled(d, e) PROVE Ledger!Next
  <2>1. owed[d] \ uploaded \subseteq local[d] \cup {e} /\ local[d] \cup {e} \in SUBSET Edits
    BY <1>1
  <2>2. local' = [local EXCEPT ![d] = local[d] \cup {e}] /\ UNCHANGED <<owed, uploaded>>
    BY <1>3 DEF EditUnscheduled
  <2> QED BY <2>1, <2>2, LedgerRewrites
<1>4. CASE EnableRejected(d) \/ DisableSync(d) \/ ScheduleLate(d) \/ Onboard(d)
  BY <1>4, LedgerStutters DEF EnableRejected, DisableSync, ScheduleLate, Onboard
<1>5. ASSUME NEW f \in Frames, StartLogout(d, f) PROVE Ledger!Next
  <2>1. local' = [local EXCEPT ![d] = local[d]] /\ local[d] \in SUBSET Edits
    BY <1>1, <1>5 DEF StartLogout
  <2> QED BY <1>5, <2>1, LedgerForfeits DEF StartLogout
<1>6. ASSUME NEW f \in Frames, StartResync(d, f) PROVE Ledger!Next
  <2>1. local' = [local EXCEPT ![d] = local[d]] /\ local[d] \in SUBSET Edits
    BY <1>1, <1>6 DEF StartResync
  <2> QED BY <1>6, <2>1, LedgerForfeits DEF StartResync
<1>7. ASSUME NEW f \in Frames, StartEnable(d, f) \/ StartErase(d, f)
      PROVE  UNCHANGED Ledger!vars
  BY <1>7, LedgerStutters DEF StartEnable, StartErase
<1>9. ASSUME NEW f \in Frames, Reload(d, f) PROVE Ledger!Next
  <2>1. UNCHANGED <<owed, uploaded>>
    BY <1>9 DEF Reload
  <2>2. PICK data \in {local[d], {}} :
           local' = [local EXCEPT ![d] = data] /\ (data = local[d] \/ LoggingOut(d))
    BY <1>9 DEF Reload
  <2>3. owed[d] \ uploaded \subseteq data /\ data \in SUBSET Edits
    BY <1>1, <2>2 DEF SyncInv, ClosedOwesNothing
  <2> QED BY <2>1, <2>2, <2>3, LedgerRewrites
<1>8. ASSUME NEW f \in Frames, NEW mode \in {"replace", "merge"}, StartSwitch(d, f, mode)
      PROVE  [Ledger!Next]_(Ledger!vars)
  <2>1. local' = [local EXCEPT ![d] = local[d]] /\ local[d] \in SUBSET Edits
    BY <1>1, <1>8 DEF StartSwitch
  <2>2. CASE mode = "replace"
    BY <1>8, <2>1, <2>2, LedgerForfeits DEF StartSwitch
  <2>3. CASE mode # "replace"
    BY <1>8, <2>3, LedgerStutters DEF StartSwitch
  <2> QED BY <2>2, <2>3
<1> QED BY <1>2, <1>3, <1>4, <1>5, <1>6, <1>7, <1>8, <1>9 DEF UserStep

\* Continuations: what replaces the local data has all that was promised.
LEMMA ContinueIsLedgerStep ==
    ASSUME SyncInv, NEW f \in Frames, Continue(f)
    PROVE  [Ledger!Next]_(Ledger!vars)
<1> USE DEF disk, session, history, bounds
<1> DEFINE d == call[f].dev
<1>1. call[f].snap \in SUBSET Edits
  BY DEF SyncInv, TypeOK, Call
<1>2. ASSUME d \in Devices, owed[d] \subseteq uploaded \cup call[f].snap,
             local' = local \/ local' = [local EXCEPT ![d] = call[f].snap],
             UNCHANGED <<owed, uploaded>>
      PROVE  [Ledger!Next]_(Ledger!vars)
  <2>1. owed[d] \ uploaded \subseteq call[f].snap
    BY <1>2
  <2> QED BY <1>1, <1>2, <2>1, LedgerRewrites, LedgerStutters
<1>3. CASE PushStored(f) \/ FlushStored(f) \/ PullNotModified(f)
  BY <1>3, LedgerStutters DEF PushStored, FlushStored, PullNotModified
<1>4. CASE PullSettles(f) \/ CallFails(f) \/ ResyncSettles(f)
  BY <1>4, LedgerStutters DEF PullSettles, CallFails, ResyncSettles
<1>5. CASE EraseSettles(f) \/ SwitchSettles(f)
  BY <1>5, LedgerStutters DEF EraseSettles, SwitchSettles
<1>6. CASE PullImports(f)
  <2>1. call[f].op = "pull" /\ call[f].stage = "vault"
    BY <1>6 DEF PullImports, At
  <2>2. d \in Devices /\ owed[d] \subseteq uploaded
    BY <2>1, RunsOnDevice DEF Carries, InFrame
  <2>3. /\ local' = local \/ local' = [local EXCEPT ![d] = call[f].snap]
        /\ UNCHANGED <<owed, uploaded>>
    BY <1>6 DEF PullImports, ReplaceLocal
  <2> HIDE DEF d
  <2> QED BY <1>2, <2>2, <2>3
<1>7. CASE ResyncImports(f)
  <2>1. call[f].op = "resync"
    BY <1>7 DEF ResyncImports, At
  <2>2. d \in Devices /\ owed[d] \subseteq uploaded
    BY <2>1, RunsOnDevice DEF Carries, InFrame
  <2>3. /\ local' = local \/ local' = [local EXCEPT ![d] = call[f].snap]
        /\ UNCHANGED <<owed, uploaded>>
    BY <1>7 DEF ResyncImports, ReplaceLocal
  <2> HIDE DEF d
  <2> QED BY <1>2, <2>2, <2>3
<1>8. CASE SwitchApplies(f)
  <2>1. call[f].op \in {"replace", "merge"}
    BY <1>8 DEF SwitchApplies
  <2>2. d \in Devices /\ owed[d] \subseteq uploaded \cup call[f].snap
    BY <2>1, RunsOnDevice DEF Carries, InFrame
  <2>3. local' = [local EXCEPT ![d] = call[f].snap] /\ UNCHANGED <<owed, uploaded>>
    BY <1>8 DEF SwitchApplies
  <2> HIDE DEF d
  <2> QED BY <1>2, <2>2, <2>3
<1>9. CASE LogoutSettles(f)
  <2>1. d \in Devices /\ owed[d] = {}
    BY <1>9, RunsOnDevice DEF LogoutSettles, At, SyncInv, ClosedOwesNothing, LoggingOut,
        InFrame
  <2>2. local' = [local EXCEPT ![d] = {}] /\ UNCHANGED <<owed, uploaded>>
    BY <1>9 DEF LogoutSettles
  <2> HIDE DEF d
  <2> QED BY <2>1, <2>2, LedgerRewrites
<1> QED BY <1>3, <1>4, <1>5, <1>6, <1>7, <1>8, <1>9 DEF Continue

\* The server and the faults.
LEMMA ServerStepIsLedgerStep ==
    ASSUME SyncInv, NEW f \in Frames, Serve(f) \/ Fault(f)
    PROVE  [Ledger!Next]_(Ledger!vars)
<1> USE DEF disk, session, history, bounds
<1>1. CASE HandlePut(f) \/ AnswerLost(f)
  BY <1>1, LedgerPublishes DEF HandlePut, AnswerLost, StoreVault
<1>2. CASE HandleGet(f) \/ HandleDelete(f)
  BY <1>2, LedgerStutters DEF HandleGet, HandleDelete
<1>3. CASE ImportFails(f) \/ RequestFails(f) \/ DeletionLost(f)
  BY <1>3, LedgerStutters DEF ImportFails, RequestFails, DeletionLost
<1>4. CASE SwitchBreaks(f)
  <2>1. call[f].dev \in Devices
    BY <1>4, RunsOnDevice DEF SwitchBreaks
  <2> QED BY ZenonT(40), <1>4, <2>1, LedgerForfeits DEF SwitchBreaks
<1> QED BY <1>1, <1>2, <1>3, <1>4 DEF Serve, Fault

\* Every step of the protocol is a step of the ledger or changes nothing there.
LEMMA NextIsLedgerStep ==
    ASSUME SyncInv, [Next]_vars
    PROVE  [Ledger!Next]_(Ledger!vars)
<1>1. ASSUME NEW d \in Devices, TimerStep(d) \/ PullStep(d) PROVE UNCHANGED Ledger!vars
  BY <1>1, LedgerStutters DEF TimerStep, PullStep, TimerFires, StartPull, disk, session, history
<1>2. CASE UNCHANGED vars
  BY <1>2, LedgerStutters DEF vars, disk, history
<1> QED BY <1>1, <1>2, UserStepIsLedgerStep, ContinueIsLedgerStep, ServerStepIsLedgerStep DEF Next

\* The sync protocol implements the ledger: an owed edit leaves a device only by being
\* uploaded or by the user's own decision, for any number of devices, edits and calls.
THEOREM SyncImplementsLedger == Spec => KeepsPromises
<1>1. Init => Ledger!Init
  BY InitIsLedgerInit
<1>2. SyncInv /\ [Next]_vars => [Ledger!Next]_(Ledger!vars)
  BY NextIsLedgerStep
<1> QED BY <1>1, <1>2, SyncInvariant, PTL DEF Spec, KeepsPromises, Ledger!Spec
=============================================================================
