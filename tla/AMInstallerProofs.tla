-------------------------- MODULE AMInstallerProofs --------------------------
(***************************************************************************)
(* Proofs about AMInstaller for all sets of applications and all bounds:   *)
(* its types, that at most one handler uses the installer, and that a      *)
(* handler which ends settles the status of its component.                 *)
(***************************************************************************)
EXTENDS AMInstaller, SequenceTheorems, TLAPS

(* The inductive invariant                                                 *)

\* No handler on the stack s uses the installer.
Quiet(s) == \A j \in DOMAIN s : ~Holds(s[j])

\* The stack s allows what OneRequest asks for, if the flag is busy.
Sound(s, busy) ==
  /\ ~busy => Quiet(s)
  /\ \A j, k \in DOMAIN s : Holds(s[j]) /\ Holds(s[k]) => j = k

IInv == TypeOK /\ OneRequest

-----------------------------------------------------------------------------
(* Lemmas about the stack                                                  *)

\* A handler that ends leaves the handlers below it as they are.
LEMMA BelowStack ==
  ASSUME NEW s \in Seq(Frame), s # << >>
  PROVE  /\ SubSeq(s, 1, Len(s) - 1) \in Seq(Frame)
         /\ Len(SubSeq(s, 1, Len(s) - 1)) = Len(s) - 1
         /\ \A j \in DOMAIN SubSeq(s, 1, Len(s) - 1) :
              /\ j \in DOMAIN s /\ j # Len(s)
              /\ SubSeq(s, 1, Len(s) - 1)[j] = s[j]
         /\ Len(s) \in DOMAIN s /\ s[Len(s)] \in Frame
<1> DEFINE n == Len(s) - 1
<1>1. n \in Nat /\ 1 \in Int /\ n \in Int /\ Len(s) = n + 1
  OBVIOUS
<1>2. \A i \in 1..n : s[i] \in Frame
  OBVIOUS
<1>3. Len(s) \in DOMAIN s /\ s[Len(s)] \in Frame
  OBVIOUS
<1>4. DOMAIN s = 1..n+1
  OBVIOUS
<1> HIDE DEF n
<1>5. /\ SubSeq(s, 1, n) \in Seq(Frame)
      /\ Len(SubSeq(s, 1, n)) = IF 1 <= n THEN n - 1 + 1 ELSE 0
      /\ \A i \in 1 .. n-1+1 : SubSeq(s, 1, n)[i] = s[1+i-1]
  BY <1>1, <1>2, SubSeqProperties
<1>6. Len(SubSeq(s, 1, n)) = n
  BY <1>1, <1>5
<1>7. DOMAIN SubSeq(s, 1, n) = 1..n
  BY <1>5, <1>6
<1>8. \A j \in 1..n : j \in DOMAIN s /\ j # Len(s) /\ SubSeq(s, 1, n)[j] = s[j]
  BY <1>1, <1>4, <1>5
<1> QED
  BY <1>3, <1>5, <1>6, <1>7, <1>8, <1>1 DEF n

\* A new innermost handler.
LEMMA PushStack ==
  ASSUME NEW s \in Seq(Frame), NEW f \in Frame
  PROVE  /\ Append(s, f) \in Seq(Frame)
         /\ Len(Append(s, f)) = Len(s) + 1
         /\ DOMAIN Append(s, f) = DOMAIN s \cup {Len(s) + 1}
         /\ Len(s) + 1 \notin DOMAIN s
         /\ \A j \in DOMAIN s : Append(s, f)[j] = s[j]
         /\ Append(s, f)[Len(s) + 1] = f
<1>1. Len(s) \in Nat /\ DOMAIN s = 1..Len(s)
  OBVIOUS
<1>2. /\ Append(s, f) \in Seq(Frame)
      /\ Len(Append(s, f)) = Len(s)+1
      /\ \A i \in 1.. Len(s) : Append(s, f)[i] = s[i]
      /\ Append(s, f)[Len(s)+1] = f
  BY AppendProperties
<1>3. DOMAIN Append(s, f) = 1..Len(s)+1
  BY <1>2
<1> QED
  BY <1>1, <1>2, <1>3

\* If one handler at most uses the installer, none does below one that does.
LEMMA BelowSound ==
  ASSUME NEW s \in Seq(Frame), s # << >>, NEW busy, Sound(s, busy)
  PROVE  /\ Sound(SubSeq(s, 1, Len(s) - 1), busy)
         /\ Holds(s[Len(s)]) => Quiet(SubSeq(s, 1, Len(s) - 1))
  BY BelowStack DEF Sound, Quiet

\* A handler that does not use the installer may begin at any time.
LEMMA PushIdle ==
  ASSUME NEW s \in Seq(Frame), NEW f \in Frame, ~Holds(f),
         NEW busy, Sound(s, busy)
  PROVE  Sound(Append(s, f), busy)
  BY PushStack DEF Sound, Quiet

\* A handler that uses it may begin when no other one does.
LEMMA PushHolder ==
  ASSUME NEW s \in Seq(Frame), NEW f \in Frame, Quiet(s)
  PROVE  Sound(Append(s, f), TRUE)
  BY PushStack DEF Sound, Quiet

LEMMA QuietIsSound ==
  ASSUME NEW s, Quiet(s), NEW busy
  PROVE  Sound(s, busy)
  BY DEF Sound, Quiet

LEMMA OneRequestIsSound ==
  (OneRequest <=> Sound(frames, iInstallInProgress))
  /\ (OneRequest' <=> Sound(frames', iInstallInProgress'))
  BY DEF OneRequest, Sound, Quiet

LEMMA EmptyStack == << >> \in Seq(Frame) /\ Quiet(<< >>)
  BY DEF Quiet

-----------------------------------------------------------------------------
(* Lemmas about the steps of the handlers                                  *)

\* The invariant in two halves: the handlers, and the data.
Stacked ==
  /\ frames \in Seq(Frame) /\ iInstallInProgress \in BOOLEAN
  /\ Sound(frames, iInstallInProgress)

CompTypes == comp \in [Ids -> Component] /\ iComp \in Ids \cup {0}

DataTypes ==
  /\ ids \subseteq Ids /\ nextId \in 1..MaxId+1
  /\ device \subseteq Apps \cup {NoApp} /\ requests \in 0..MaxRequests

LEMMA IInvParts ==
  (IInv <=> Stacked /\ CompTypes /\ DataTypes)
  /\ (IInv' <=> Stacked' /\ CompTypes' /\ DataTypes')
  BY OneRequestIsSound
     DEF IInv, TypeOK, Stacked, CompTypes, DataTypes

LEMMA StatusType ==
  ASSUME NEW m \in [Ids -> Component], NEW i \in Ids, NEW v \in Statuses
  PROVE  WithStatus(m, i, v) \in [Ids -> Component]
  BY DEF WithStatus, Component

LEMMA StatusValues ==
  /\ EIdle \in Statuses /\ EFailed \in Statuses
  /\ ERemoveProgress \in Statuses /\ EInstallProgress \in Statuses
  /\ EInstalledFailedWithData \in Statuses
  /\ EInstallFailedwithOutData \in Statuses
  BY DEF EIdle, EFailed, ERemoveProgress, EInstallProgress,
         EInstalledFailedWithData, EInstallFailedwithOutData, Statuses

LEMMA InstalledType ==
  ASSUME NEW m \in [Ids -> Component], NEW i \in Ids, NEW inactive \in BOOLEAN
  PROVE  AsInstalled(m, i, inactive) \in [Ids -> Component]
<1> DEFINE c == [m[i] EXCEPT
                   !.state = IF inactive THEN "Inactive" ELSE "Active",
                   !.status = EIdle]
<1>1. c \in Component
  BY StatusValues DEF Component, States
<1>2. AsInstalled(m, i, inactive) = [m EXCEPT ![i] = c]
  BY DEF AsInstalled
<1> HIDE DEF c
<1> QED
  BY <1>1, <1>2

LEMMA RestartedStacked ==
  ASSUME Restarted
  PROVE  Stacked' /\ iComp' \in Ids \cup {0}
  BY EmptyStack, QuietIsSound DEF Restarted, Stacked

LEMMA AskInstallerStep ==
  ASSUME NEW m \in [Ids -> Component], NEW s \in Seq(Frame), NEW f \in Frame,
         NEW c \in Ids \cup {0}, iInstallInProgress \in BOOLEAN,
         Sound(s, iInstallInProgress), AskInstaller(m, s, f, c)
  PROVE  Stacked' /\ CompTypes'
<1>1. comp' = m
  BY DEF AskInstaller
<1>2. CASE /\ ~iInstallInProgress /\ iInstallInProgress' = TRUE
           /\ frames' = Append(s, f) /\ iComp' = c
  <2>1. Quiet(s)
    BY <1>2 DEF Sound
  <2>2. Sound(Append(s, f), TRUE)
    BY <2>1, PushHolder
  <2>3. frames' \in Seq(Frame)
    BY <1>2, PushStack
  <2> QED
    BY <1>1, <1>2, <2>2, <2>3 DEF Stacked, CompTypes
<1>3. CASE iInstallInProgress /\ Restarted
  BY <1>1, <1>3, RestartedStacked DEF CompTypes
<1> QED
  BY <1>2, <1>3 DEF AskInstaller

\* What a handler leaves that ends while the stack s below it is sound.
LEMMA EndStep ==
  ASSUME NEW s \in Seq(Frame), frames' = s, iInstallInProgress' \in BOOLEAN,
         Sound(s, iInstallInProgress')
  PROVE  Stacked'
  BY DEF Stacked

LEMMA BeginInstallStep ==
  ASSUME NEW m \in [Ids -> Component], NEW s \in Seq(Frame), NEW f \in Frame,
         NEW c \in Ids \cup {0}, iInstallInProgress \in BOOLEAN,
         Sound(s, iInstallInProgress), BeginInstall(m, s, f, c)
  PROVE  Stacked' /\ CompTypes'
<1> DEFINE g == [f EXCEPT !.at = "working", !.wait = "pending"]
<1>1. f.id \in Ids
  BY DEF Frame
<1>2. WithStatus(m, f.id, EInstallProgress) \in [Ids -> Component]
      /\ WithStatus(m, f.id, EInstalledFailedWithData) \in [Ids -> Component]
  BY <1>1, StatusType, StatusValues
<1>3. g \in Frame
  BY DEF Frame, Waits
<1>4. CASE AskInstaller(WithStatus(m, f.id, EInstallProgress), s, g, c)
  <2> HIDE DEF g
  <2> QED
    BY <1>2, <1>3, <1>4, AskInstallerStep
<1>5. CASE /\ ~iInstallInProgress /\ UNCHANGED iInstallInProgress
           /\ comp' = WithStatus(m, f.id, EInstalledFailedWithData)
           /\ frames' = s /\ iComp' = c
  BY <1>2, <1>5 DEF Stacked, CompTypes
<1> QED
  BY <1>4, <1>5 DEF BeginInstall

LEMMA WaitType ==
  ASSUME NEW who \in {"client", "download"},
         NEW op \in {"install", "remove", "update"}, NEW i \in Ids,
         NEW at \in {"confirm", "working", "note"}, NEW w \in Waits,
         NEW inactive \in BOOLEAN
  PROVE  Wait(who, op, i, at, w, inactive) \in Frame
  BY DEF Wait, Frame

LEMMA DoTheInstallStep ==
  ASSUME NEW m \in [Ids -> Component], NEW s \in Seq(Frame),
         NEW who \in {"client", "download"}, NEW i \in Ids,
         NEW inactive \in BOOLEAN, iInstallInProgress \in BOOLEAN,
         Sound(s, iInstallInProgress), DoTheInstallL(m, s, who, i, inactive)
  PROVE  Stacked' /\ CompTypes'
<1> DEFINE f == Wait(who, "install", i, "confirm", "pending", inactive)
<1>1. f \in Frame
  BY WaitType DEF Waits
<1>2. ~Holds(f)
  BY DEF Holds, Wait
<1>3. CASE /\ comp' = m /\ frames' = Append(s, f) /\ iComp' = i
           /\ UNCHANGED iInstallInProgress
  <2> HIDE DEF f
  <2>1. frames' \in Seq(Frame) /\ Sound(frames', iInstallInProgress)
    BY <1>1, <1>2, <1>3, PushStack, PushIdle
  <2> QED
    BY <1>3, <2>1 DEF Stacked, CompTypes
<1>4. CASE BeginInstall(m, s, f, i)
  <2> HIDE DEF f
  <2> QED
    BY <1>1, <1>4, BeginInstallStep
<1> QED
  BY <1>3, <1>4 DEF DoTheInstallL

LEMMA BeginUninstallStep ==
  ASSUME NEW m \in [Ids -> Component], NEW s \in Seq(Frame), NEW i \in Ids,
         iComp \in Ids \cup {0}, iInstallInProgress \in BOOLEAN,
         Sound(s, iInstallInProgress), BeginUninstall(m, s, i)
  PROVE  Stacked' /\ CompTypes'
<1> DEFINE f == Wait("client", "remove", i, "working", "pending", FALSE)
           g == [f EXCEPT !.wait = "never"]
<1>1. f \in Frame
  BY WaitType DEF Waits
<1>2. g \in Frame /\ ~Holds(g)
  BY <1>1 DEF Holds, Wait, Frame, Waits
<1>3. CASE AskInstaller(m, s, f, iComp)
  <2> HIDE DEF f
  <2> QED
    BY <1>1, <1>3, AskInstallerStep
<1>4. CASE /\ ~iInstallInProgress /\ UNCHANGED <<iInstallInProgress, iComp>>
           /\ comp' = m /\ frames' = Append(s, g)
  <2> HIDE DEF g
  <2>1. frames' \in Seq(Frame) /\ Sound(frames', iInstallInProgress)
    BY <1>2, <1>4, PushStack, PushIdle
  <2> QED
    BY <1>4, <2>1 DEF Stacked, CompTypes
<1> QED
  BY <1>3, <1>4 DEF BeginUninstall

LEMMA FinishInstallStep ==
  ASSUME NEW I \in SUBSET Ids, NEW m \in [Ids -> Component],
         NEW s \in Seq(Frame), Quiet(s), NEW i \in Ids,
         NEW inactive \in BOOLEAN, FinishInstall(I, m, s, i, inactive)
  PROVE  Stacked' /\ comp' \in [Ids -> Component] /\ ids' \subseteq Ids
<1>1. comp' = AsInstalled(m, i, inactive) /\ ids' \subseteq Ids
      /\ frames' = s /\ iInstallInProgress' = FALSE
  BY DEF FinishInstall
<1>2. Sound(s, FALSE)
  BY QuietIsSound
<1> QED
  BY <1>1, <1>2, InstalledType, EndStep

LEMMA InstallCompleteStep ==
  ASSUME NEW I \in SUBSET Ids, NEW m \in [Ids -> Component],
         NEW s \in Seq(Frame), Quiet(s), NEW f \in Frame,
         iInstallInProgress = TRUE, InstallComplete(I, m, s, f)
  PROVE  Stacked' /\ comp' \in [Ids -> Component] /\ ids' \subseteq Ids
<1> DEFINE g == [f EXCEPT !.at = "note", !.wait = "pending"]
<1>1. g \in Frame /\ f.id \in Ids /\ f.inactive \in BOOLEAN
  BY DEF Frame, Waits
<1>2. CASE /\ ids' = I /\ comp' = m /\ UNCHANGED iInstallInProgress
           /\ frames' = Append(s, g)
  <2> HIDE DEF g
  <2>1. frames' \in Seq(Frame) /\ Sound(frames', TRUE)
    BY <1>1, <1>2, PushStack, PushHolder
  <2> QED
    BY <1>2, <2>1 DEF Stacked
<1>3. CASE FinishInstall(I, m, s, f.id, f.inactive)
  BY <1>1, <1>3, FinishInstallStep
<1> QED
  BY <1>2, <1>3 DEF InstallComplete

LEMMA FinishUpdateStep ==
  ASSUME NEW m \in [Ids -> Component], NEW s \in Seq(Frame), Quiet(s),
         NEW i \in Ids, NEW t \in Ids, NEW inactive \in BOOLEAN,
         FinishUpdate(m, s, i, t, inactive)
  PROVE  Stacked' /\ comp' \in [Ids -> Component]
<1> DEFINE n == [m EXCEPT ![t].state = "Delete"]
<1>1. n \in [Ids -> Component]
  BY DEF Component, States
<1>2. comp' = AsInstalled(n, i, inactive)
      /\ frames' = s /\ iInstallInProgress' = FALSE
  BY DEF FinishUpdate
<1>3. Sound(s, FALSE)
  BY QuietIsSound
<1> HIDE DEF n
<1> QED
  BY <1>1, <1>2, <1>3, InstalledType, EndStep

LEMMA FullUpdateStep ==
  ASSUME NEW m \in [Ids -> Component], NEW s \in Seq(Frame),
         NEW who \in {"client", "download"}, NEW i \in Ids, NEW t \in Ids,
         NEW inactive \in BOOLEAN, iInstallInProgress \in BOOLEAN,
         device \subseteq Apps \cup {NoApp}, Sound(s, iInstallInProgress),
         FullUpdateL(m, s, who, i, t, inactive)
  PROVE  /\ Stacked' /\ comp' \in [Ids -> Component]
         /\ device' \subseteq Apps \cup {NoApp}
<1> DEFINE f == [Wait(who, "update", i, "note", "pending", inactive)
                   EXCEPT !.other = t]
           installed == device \cup {m[i].app}
<1>1. Wait(who, "update", i, "note", "pending", inactive) \in Frame
  BY WaitType DEF Waits
<1>2. f \in Frame
  BY <1>1 DEF Frame
<1>3. installed \subseteq Apps \cup {NoApp}
  BY DEF Component
<1>4. ~iInstallInProgress => Quiet(s)
  BY DEF Sound
<1>5. CASE /\ comp' = m /\ frames' = s
           /\ UNCHANGED <<device, iInstallInProgress>>
  BY <1>5 DEF Stacked
<1>6. CASE /\ ~iInstallInProgress /\ comp' = m /\ frames' = s
           /\ iInstallInProgress' = TRUE
           /\ device' \in {device} \cup
                          {installed : a \in JavaApps \cap {m[i].app}}
  <2>1. device' \subseteq Apps \cup {NoApp}
    BY <1>3, <1>6
  <2>2. Sound(s, TRUE)
    BY <1>4, <1>6, QuietIsSound
  <2> QED
    BY <1>6, <2>1, <2>2 DEF Stacked
<1>7. CASE /\ ~iInstallInProgress /\ device' = installed
           /\ comp' = m /\ frames' = Append(s, f) /\ iInstallInProgress' = TRUE
  <2>1. device' \subseteq Apps \cup {NoApp}
    BY <1>3, <1>7
  <2> HIDE DEF f
  <2>2. frames' \in Seq(Frame) /\ Sound(frames', TRUE)
    BY <1>2, <1>4, <1>7, PushStack, PushHolder
  <2> QED
    BY <1>7, <2>1, <2>2 DEF Stacked
<1>8. CASE /\ ~iInstallInProgress /\ device' = installed
           /\ FinishUpdate(m, s, i, t, inactive)
  BY <1>3, <1>4, <1>8, FinishUpdateStep
<1> QED
  BY <1>5, <1>6, <1>7, <1>8 DEF FullUpdateL

-----------------------------------------------------------------------------
(* Every request preserves the invariant                                   *)

LEMMA InitIInv == Init => IInv
<1> SUFFICES ASSUME Init PROVE Stacked /\ CompTypes /\ DataTypes
  BY IInvParts
<1>1. Stacked
  BY EmptyStack, QuietIsSound DEF Init, Stacked
<1>2. Blank \in Component
  BY StatusValues DEF Blank, Component, States
<1>3. CompTypes
  BY <1>2 DEF Init, CompTypes
<1>4. DataTypes
  BY BoundsAssumption DEF Init, DataTypes
<1> QED
  BY <1>1, <1>3, <1>4

\* A step that leaves the handlers, or the data, alone.
LEMMA KeepsStack ==
  ASSUME Stacked, UNCHANGED <<frames, iInstallInProgress>>
  PROVE  Stacked'
  BY DEF Stacked

LEMMA CreateStep ==
  ASSUME IInv, NEW state \in {"Delivered", "Download"}, NEW app \in Apps,
         Create(state, app)
  PROVE  IInv'
<1> DEFINE c == [Blank EXCEPT !.state = state, !.app = app,
          !.uid = IF state = "Delivered" /\ app \in SisApps THEN app ELSE @]
<1>1. nextId \in Ids /\ nextId + 1 \in 1..MaxId+1
  BY IInvParts, BoundsAssumption DEF Create, DataTypes, Ids
<1>2. c \in Component
  BY StatusValues DEF Blank, Component, States, Apps
<1>3. comp' = [comp EXCEPT ![nextId] = c]
  BY DEF Create
<1> HIDE DEF c
<1>4. CompTypes'
  BY <1>1, <1>2, <1>3, IInvParts DEF CompTypes, Create
<1>5. DataTypes'
  BY <1>1, IInvParts DEF DataTypes, Create
<1> QED
  BY <1>4, <1>5, IInvParts, KeepsStack DEF Create

LEMMA IdsAreIds == ASSUME IInv, NEW i \in ids PROVE i \in Ids
  BY DEF IInv, TypeOK

LEMMA DownloadFailedStep ==
  ASSUME IInv, NEW i \in ids, DownloadFailed(i)
  PROVE  IInv'
<1>1. CompTypes'
  BY IInvParts, IdsAreIds, StatusType, StatusValues
     DEF CompTypes, DownloadFailed
<1>2. DataTypes'
  BY IInvParts DEF DataTypes, DownloadFailed
<1> QED
  BY <1>1, <1>2, IInvParts, KeepsStack DEF DownloadFailed

LEMMA DownloadCompleteStep ==
  ASSUME IInv, NEW i \in ids, DownloadComplete(i)
  PROVE  IInv'
<1> DEFINE uid == IF comp[i].app \in SisApps THEN comp[i].app ELSE NoApp
           m == [comp EXCEPT ![i] = [@ EXCEPT !.state = "Delivered",
                                              !.status = EIdle, !.uid = uid]]
<1>1. i \in Ids /\ comp[i] \in Component
  BY IdsAreIds DEF IInv, TypeOK
<1>2. [comp[i] EXCEPT !.state = "Delivered", !.status = EIdle, !.uid = uid]
        \in Component
  BY <1>1, StatusValues DEF Component, States, Apps
<1>3. m = [comp EXCEPT ![i] = [comp[i] EXCEPT !.state = "Delivered",
                                              !.status = EIdle, !.uid = uid]]
  OBVIOUS
<1>4. comp \in [Ids -> Component]
  BY DEF IInv, TypeOK
<1>5. m \in [Ids -> Component]
  <2> HIDE DEF m, uid
  <2> QED
    BY <1>1, <1>2, <1>3, <1>4
<1>6. /\ frames \in Seq(Frame) /\ iInstallInProgress \in BOOLEAN
      /\ Sound(frames, iInstallInProgress)
  BY IInvParts DEF Stacked
<1>7. UNCHANGED <<ids, nextId, requests>>
  BY DEF DownloadComplete
<1>8. CASE /\ comp' = m /\ iComp' = i
           /\ UNCHANGED <<device, iInstallInProgress, frames>>
  <2> HIDE DEF m
  <2> QED
    BY <1>1, <1>5, <1>7, <1>8, IInvParts, KeepsStack DEF CompTypes, DataTypes
<1>9. CASE /\ UNCHANGED device
           /\ \E inactive \in BOOLEAN :
                DoTheInstallL(m, frames, "download", i, inactive)
  <2> HIDE DEF m
  <2>1. Stacked' /\ CompTypes'
    BY <1>1, <1>5, <1>6, <1>9, DoTheInstallStep
  <2>2. DataTypes'
    BY <1>7, <1>9, IInvParts DEF DataTypes
  <2> QED
    BY <2>1, <2>2, IInvParts
<1>10. CASE /\ iComp' = i
            /\ \E inactive \in BOOLEAN, t \in LastWithUid(ids, m, i) :
                 FullUpdateL(m, frames, "download", i, t, inactive)
  <2> HIDE DEF m
  <2>1. LastWithUid(ids, m, i) \subseteq Ids
    BY IdsAreIds DEF LastWithUid
  <2>2. device \subseteq Apps \cup {NoApp}
    BY DEF IInv, TypeOK
  <2>3. /\ Stacked' /\ comp' \in [Ids -> Component]
        /\ device' \subseteq Apps \cup {NoApp}
    BY <1>1, <1>5, <1>6, <1>10, <2>1, <2>2, FullUpdateStep
  <2>4. CompTypes' /\ DataTypes'
    BY <1>1, <1>7, <1>10, <2>3, IInvParts DEF CompTypes, DataTypes
  <2> QED
    BY <2>3, <2>4, IInvParts
<1> QED
  BY <1>8, <1>9, <1>10 DEF DownloadComplete

LEMMA RequestedType ==
  ASSUME IInv, Requested
  PROVE  requests' \in 0..MaxRequests
  BY BoundsAssumption DEF IInv, TypeOK, Requested

LEMMA InstallStep ==
  ASSUME IInv, NEW i \in ids, Install(i)
  PROVE  IInv'
<1>1. Stacked' /\ CompTypes'
  BY IInvParts, IdsAreIds, DoTheInstallStep DEF Install, Stacked, CompTypes
<1>2. DataTypes'
  BY IInvParts, RequestedType DEF Install, DataTypes
<1> QED
  BY <1>1, <1>2, IInvParts

LEMMA UpdateStep ==
  ASSUME IInv, NEW i \in ids, NEW t \in ids, Update(i, t)
  PROVE  IInv'
<1>1. /\ Stacked' /\ comp' \in [Ids -> Component]
      /\ device' \subseteq Apps \cup {NoApp}
  BY IInvParts, IdsAreIds, FullUpdateStep
     DEF Update, Stacked, CompTypes, DataTypes
<1>2. CompTypes'
  BY <1>1, IInvParts DEF Update, CompTypes
<1>3. DataTypes'
  BY <1>1, IInvParts, RequestedType DEF Update, DataTypes
<1> QED
  BY <1>1, <1>2, <1>3, IInvParts

LEMMA RemoveNowStep ==
  ASSUME IInv, NEW i \in ids, RemoveNow(i)
  PROVE  IInv'
<1>1. CompTypes'
  BY IInvParts, IdsAreIds, StatusType, StatusValues DEF RemoveNow, CompTypes
<1>2. DataTypes'
  BY IInvParts, RequestedType DEF RemoveNow, DataTypes
<1> QED
  BY <1>1, <1>2, IInvParts, KeepsStack DEF RemoveNow

LEMMA RemoveTaggedStep ==
  ASSUME IInv, NEW i \in ids, RemoveTagged(i)
  PROVE  IInv'
<1>1. CompTypes'
  BY IInvParts, IdsAreIds, StatusType, StatusValues DEF RemoveTagged, CompTypes
<1>2. DataTypes'
  BY IInvParts, RequestedType DEF RemoveTagged, DataTypes
<1> QED
  BY <1>1, <1>2, IInvParts, KeepsStack DEF RemoveTagged

LEMMA RemoveInstalledStep ==
  ASSUME IInv, NEW i \in ids, RemoveInstalled(i)
  PROVE  IInv'
<1> DEFINE m == WithStatus(comp, i, ERemoveProgress)
           f == Wait("client", "remove", i, "confirm", "pending", FALSE)
<1>1. i \in Ids /\ comp \in [Ids -> Component]
  BY IdsAreIds DEF IInv, TypeOK
<1>2. m \in [Ids -> Component]
  BY <1>1, StatusType, StatusValues
<1>3. /\ frames \in Seq(Frame) /\ iInstallInProgress \in BOOLEAN
      /\ Sound(frames, iInstallInProgress) /\ iComp \in Ids \cup {0}
  BY IInvParts DEF Stacked, CompTypes
<1>4. f \in Frame /\ ~Holds(f)
  <2>1. f \in Frame
    BY <1>1, WaitType DEF Waits
  <2> QED
    BY <2>1 DEF Holds, Wait
<1>5. DataTypes'
  BY IInvParts, RequestedType DEF RemoveInstalled, DataTypes
<1>6. CASE /\ comp' = m /\ frames' = Append(frames, f)
           /\ UNCHANGED <<iInstallInProgress, iComp>>
  <2> HIDE DEF m, f
  <2>1. frames' \in Seq(Frame) /\ Sound(frames', iInstallInProgress)
    BY <1>3, <1>4, <1>6, PushStack, PushIdle
  <2>2. Stacked' /\ CompTypes'
    BY <1>2, <1>3, <1>6, <2>1 DEF Stacked, CompTypes
  <2> QED
    BY <1>5, <2>2, IInvParts
<1>7. CASE BeginUninstall(m, frames, i)
  <2> HIDE DEF m
  <2>1. Stacked' /\ CompTypes'
    BY <1>1, <1>2, <1>3, <1>7, BeginUninstallStep
  <2> QED
    BY <1>5, <2>1, IInvParts
<1> QED
  BY <1>6, <1>7 DEF RemoveInstalled

LEMMA CheckStatusStep ==
  ASSUME IInv, CheckStatusNodesValuesL
  PROVE  IInv'
<1> DEFINE next(v) == CASE v = 30 -> 20 [] v = 40 -> 50 [] v = 50 -> 40
                        [] OTHER -> v
<1>1. \A i \in Ids : [comp[i] EXCEPT !.status = next(@)] \in Component
  BY DEF IInv, TypeOK, Component, Statuses
<1>2. comp' = [i \in Ids |-> IF i \in ids
                 THEN [comp[i] EXCEPT !.status = next(@)] ELSE comp[i]]
  BY DEF CheckStatusNodesValuesL
<1>3. comp \in [Ids -> Component] /\ iComp \in Ids \cup {0}
  BY DEF IInv, TypeOK
<1> HIDE DEF next
<1>4. comp' \in [Ids -> Component]
  BY <1>1, <1>2, <1>3
<1>5. CompTypes'
  BY <1>3, <1>4 DEF CompTypes, CheckStatusNodesValuesL
<1>6. DataTypes'
  BY IInvParts, RequestedType DEF CheckStatusNodesValuesL, DataTypes
<1> QED
  BY <1>5, <1>6, IInvParts, KeepsStack DEF CheckStatusNodesValuesL

-----------------------------------------------------------------------------
(* Answers preserve the invariant                                          *)

\* A new result of a wait changes nothing about who uses the installer.
LEMMA NewWait ==
  ASSUME Stacked, NEW j \in DOMAIN frames, frames[j].wait # "never",
         NEW w \in Waits, w # "never",
         frames' = [frames EXCEPT ![j].wait = w],
         UNCHANGED iInstallInProgress
  PROVE  Stacked'
<1> DEFINE f == [frames[j] EXCEPT !.wait = w]
<1>1. frames \in Seq(Frame) /\ frames[j] \in Frame
  BY DEF Stacked
<1>2. f \in Frame
  BY <1>1 DEF Frame
<1>3. Holds(f) = Holds(frames[j])
  BY <1>1 DEF Holds, Frame
<1>4. frames' = [frames EXCEPT ![j] = f]
  OBVIOUS
<1> HIDE DEF f
<1>5. frames' \in Seq(Frame) /\ DOMAIN frames' = DOMAIN frames
  BY <1>1, <1>2, <1>4
<1>6. \A k \in DOMAIN frames : frames'[k] = IF k = j THEN f ELSE frames[k]
  BY <1>4
<1>7. \A k \in DOMAIN frames : Holds(frames'[k]) = Holds(frames[k])
  BY <1>3, <1>6
<1>8. Sound(frames', iInstallInProgress)
  BY <1>5, <1>7 DEF Sound, Quiet, Stacked
<1> QED
  BY <1>5, <1>8 DEF Stacked

LEMMA DeviceType ==
  ASSUME IInv, NEW j \in DOMAIN frames
  PROVE  DeviceAfter(frames[j]) \subseteq Apps \cup {NoApp}
<1>1. frames[j].id \in Ids
  <2>1. frames \in Seq(Frame)
    BY DEF IInv, TypeOK
  <2>2. frames[j] \in Frame
    BY <2>1
  <2> QED
    BY <2>2 DEF Frame
<1>2. comp[frames[j].id] \in Component /\ device \subseteq Apps \cup {NoApp}
  BY <1>1 DEF IInv, TypeOK
<1> QED
  BY <1>2 DEF DeviceAfter, Component

LEMMA AnswerStep ==
  ASSUME IInv, NEW j \in DOMAIN frames, Answer(j)
  PROVE  IInv'
<1>1. PICK r \in Outcomes(frames[j]) :
        /\ frames' = [frames EXCEPT ![j].wait = r]
        /\ device' = IF frames[j].at = "working" /\ r = "ok"
                       THEN DeviceAfter(frames[j]) ELSE device
  BY DEF Answer
<1>2. r \in Waits /\ r # "never"
  BY DEF Outcomes, Results, Waits
<1>3. Stacked'
  BY <1>1, <1>2, IInvParts, NewWait DEF Answer
<1>4. CompTypes'
  BY IInvParts DEF Answer, CompTypes
<1>5. DataTypes'
  BY <1>1, IInvParts, DeviceType DEF Answer, DataTypes
<1> QED
  BY <1>3, <1>4, <1>5, IInvParts

LEMMA MissStep ==
  ASSUME IInv, NEW j \in DOMAIN frames, Miss(j)
  PROVE  IInv'
<1>1. frames[j].wait # "never" /\ "missed" \in Waits
  BY DEF Miss, Results, Waits
<1>2. Stacked'
  BY <1>1, IInvParts, NewWait DEF Miss
<1>3. CompTypes' /\ DataTypes'
  BY IInvParts DEF Miss, CompTypes, DataTypes
<1> QED
  BY <1>2, <1>3, IInvParts

-----------------------------------------------------------------------------
(* The innermost handler goes on                                           *)

\* What every action of Resume may rely on.
LEMMA TopFacts ==
  ASSUME IInv, frames # << >>
  PROVE  /\ Top \in Frame /\ Top.id \in Ids /\ Top.other \in Ids
         /\ Top.inactive \in BOOLEAN
         /\ Below \in Seq(Frame) /\ Sound(Below, iInstallInProgress)
         /\ Holds(Top) => Quiet(Below) /\ iInstallInProgress = TRUE
         /\ comp \in [Ids -> Component] /\ comp[Top.id] \in Component
         /\ iComp \in Ids \cup {0} /\ iInstallInProgress \in BOOLEAN
<1>1. /\ frames \in Seq(Frame) /\ iInstallInProgress \in BOOLEAN
      /\ Sound(frames, iInstallInProgress)
  BY IInvParts DEF Stacked
<1>2. Top \in Frame /\ Len(frames) \in DOMAIN frames
  BY <1>1, BelowStack DEF Top
<1>3. Top.id \in Ids /\ Top.other \in Ids /\ Top.inactive \in BOOLEAN
  BY <1>2 DEF Frame
<1>4. Below \in Seq(Frame) /\ Sound(Below, iInstallInProgress)
  BY <1>1, BelowStack, BelowSound DEF Below
<1>5. Holds(Top) => Quiet(Below) /\ iInstallInProgress = TRUE
  BY <1>1, <1>2, BelowSound DEF Below, Top, Sound, Quiet
<1>6. /\ comp \in [Ids -> Component]
      /\ iComp \in Ids \cup {0}
  BY DEF IInv, TypeOK
<1>7. comp[Top.id] \in Component
  BY <1>3, <1>6
<1> QED
  BY <1>1, <1>2, <1>3, <1>4, <1>5, <1>6, <1>7

\* A handler that uses the installer, at its two places.
LEMMA TopHolds ==
  ASSUME frames # << >>, Top.wait \in Results,
         Top.at = "working" \/ (Top.at = "note" /\ Top.op # "remove")
  PROVE  Holds(Top)
  BY DEF Holds, Results

LEMMA KeptData ==
  ASSUME IInv, UNCHANGED kept, ids' \subseteq Ids
  PROVE  DataTypes'
  BY IInvParts DEF kept, DataTypes

LEMMA IdsSubset == IInv => ids \subseteq Ids
  BY DEF IInv, TypeOK

LEMMA InstallConfirmedStep ==
  ASSUME IInv, InstallConfirmed
  PROVE  IInv'
<1>1. Stacked' /\ CompTypes'
  BY TopFacts, BeginInstallStep DEF InstallConfirmed, Resumed
<1> QED
  BY <1>1, KeptData, IdsSubset, IInvParts DEF InstallConfirmed

LEMMA InstallDeclinedStep ==
  ASSUME IInv, InstallDeclined
  PROVE  IInv'
<1>1. Stacked'
  BY TopFacts DEF InstallDeclined, Resumed, Stacked
<1>2. comp' \in [Ids -> Component]
  BY TopFacts, InstalledType, StatusType, StatusValues
     DEF InstallDeclined, Resumed
<1>3. CompTypes'
  BY <1>2, TopFacts DEF InstallDeclined, Resumed, CompTypes
<1> QED
  BY <1>1, <1>3, KeptData, IdsSubset, IInvParts DEF InstallDeclined

LEMMA GivenType ==
  ASSUME IInv, frames # << >>
  PROVE  GivenId(Top.id) \in Apps \cup {NoApp}
  BY TopFacts DEF GivenId, Component

\* A handler that used the installer ends.
LEMMA HolderEnds ==
  ASSUME IInv, frames # << >>, Holds(Top), frames' = Below,
         iInstallInProgress' \in BOOLEAN
  PROVE  Stacked'
  BY TopFacts, QuietIsSound DEF Stacked

LEMMA SisInstalledStep ==
  ASSUME IInv, SisInstalled
  PROVE  IInv'
<1> DEFINE id == GivenId(Top.id)
           m == [comp EXCEPT ![iComp].compId = id]
<1>1. frames # << >> /\ Holds(Top)
  BY TopHolds DEF SisInstalled, Resumed
<1>2. m \in [Ids -> Component]
  <2>1. id \in Apps \cup {NoApp}
    BY <1>1, GivenType
  <2> HIDE DEF id
  <2>2. \A i \in Ids : [comp[i] EXCEPT !.compId = id] \in Component
    BY <1>1, <2>1, TopFacts DEF Component
  <2> QED
    BY <1>1, <2>2, TopFacts
<1> HIDE DEF m
<1>3. WithStatus(m, Top.id, EIdle) \in [Ids -> Component]
      /\ WithStatus(m, Top.id, EInstalledFailedWithData) \in [Ids -> Component]
  BY <1>1, <1>2, TopFacts, StatusType, StatusValues
<1>4. CASE InstallComplete(ids, WithStatus(m, Top.id, EIdle), Below, Top)
  <2>1. Stacked' /\ comp' \in [Ids -> Component] /\ ids' \subseteq Ids
    BY <1>1, <1>3, <1>4, TopFacts, IdsSubset, InstallCompleteStep
  <2> QED
    BY <1>1, <2>1, TopFacts, KeptData, IInvParts DEF SisInstalled, CompTypes
<1>5. CASE /\ comp' = WithStatus(m, Top.id, EIdle) /\ frames' = Below
           /\ UNCHANGED <<ids, iInstallInProgress>>
  <2>1. Stacked'
    BY <1>1, <1>5, TopFacts, HolderEnds
  <2> QED
    BY <1>1, <1>3, <1>5, <2>1, TopFacts, KeptData, IdsSubset, IInvParts
       DEF SisInstalled, CompTypes
<1>6. CASE /\ comp' = WithStatus(m, Top.id, EInstalledFailedWithData)
           /\ iInstallInProgress' = FALSE /\ frames' = Below
           /\ UNCHANGED ids
  <2>1. Stacked'
    BY <1>1, <1>6, HolderEnds
  <2> QED
    BY <1>1, <1>3, <1>6, <2>1, TopFacts, KeptData, IdsSubset, IInvParts
       DEF SisInstalled, CompTypes
<1> QED
  BY <1>4, <1>5, <1>6 DEF SisInstalled, m

LEMMA JavaCancelledStep ==
  ASSUME IInv, JavaCancelled
  PROVE  IInv'
<1> DEFINE m == [comp EXCEPT ![Top.id].compId = NoApp]
<1>1. frames # << >> /\ Holds(Top)
  BY TopHolds DEF JavaCancelled, Resumed
<1>2. m \in [Ids -> Component]
  BY <1>1, TopFacts DEF Component
<1>3. comp' = WithStatus(m, Top.id, EInstalledFailedWithData)
  BY DEF JavaCancelled
<1>4. iInstallInProgress' \in BOOLEAN
  BY <1>1, TopFacts DEF JavaCancelled
<1> HIDE DEF m
<1>5. comp' \in [Ids -> Component]
  BY <1>1, <1>2, <1>3, TopFacts, StatusType, StatusValues
<1>6. Stacked'
  BY <1>1, <1>4, HolderEnds DEF JavaCancelled
<1> QED
  BY <1>1, <1>5, <1>6, TopFacts, KeptData, IdsSubset, IInvParts
     DEF JavaCancelled, CompTypes

LEMMA JavaInstalledStep ==
  ASSUME IInv, JavaInstalled
  PROVE  IInv'
<1> DEFINE n(uid) == [comp EXCEPT ![Top.id] =
                        [@ EXCEPT !.compId = GivenId(Top.id), !.uid = uid]]
           m(uid) == WithStatus(n(uid), Top.id, EIdle)
           I == ids \ DuplicateMidlets
<1>1. frames # << >> /\ Holds(Top)
  BY TopHolds DEF JavaInstalled, Resumed
<1>2. \A uid \in Apps \cup {NoApp} : m(uid) \in [Ids -> Component]
  <2> SUFFICES ASSUME NEW uid \in Apps \cup {NoApp}
               PROVE  m(uid) \in [Ids -> Component]
    OBVIOUS
  <2>1. [comp[Top.id] EXCEPT !.compId = GivenId(Top.id), !.uid = uid]
          \in Component
    BY <1>1, GivenType, TopFacts DEF Component
  <2>2. n(uid) \in [Ids -> Component]
    BY <1>1, <2>1, TopFacts
  <2> HIDE DEF n
  <2> QED
    BY <1>1, <2>2, TopFacts, StatusType, StatusValues
<1>3. I \in SUBSET Ids
  BY IdsSubset
<1>4. UNCHANGED kept
  BY DEF JavaInstalled
<1>5. CASE /\ ids' = I /\ Restarted
           /\ comp' = [comp EXCEPT ![Top.id].compId = GivenId(Top.id)]
  <2>1. comp' \in [Ids -> Component]
    BY <1>1, <1>5, GivenType, TopFacts DEF Component
  <2> QED
    BY <1>3, <1>4, <1>5, <2>1, RestartedStacked, KeptData, IInvParts
       DEF CompTypes
<1>6. CASE /\ UNCHANGED iComp
           /\ \E uid \in Apps \cup {NoApp} :
                InstallComplete(I, m(uid), Below, Top)
  <2>1. PICK uid \in Apps \cup {NoApp} : InstallComplete(I, m(uid), Below, Top)
    BY <1>6
  <2>2. m(uid) \in [Ids -> Component]
    BY <1>2
  <2> HIDE DEF m, I
  <2>3. Stacked' /\ comp' \in [Ids -> Component] /\ ids' \subseteq Ids
    BY <1>1, <1>3, <2>1, <2>2, TopFacts, InstallCompleteStep
  <2> QED
    BY <1>1, <1>4, <1>6, <2>3, TopFacts, KeptData, IInvParts DEF CompTypes
<1>7. CASE /\ UNCHANGED <<iComp, iInstallInProgress>>
           /\ \E uid \in Apps \cup {NoApp} : comp' = m(uid)
           /\ frames' = Below /\ ids' = I
  <2>1. comp' \in [Ids -> Component]
    BY <1>2, <1>7
  <2>2. Stacked'
    BY <1>1, <1>7, TopFacts, HolderEnds
  <2> HIDE DEF m, I
  <2> QED
    BY <1>1, <1>3, <1>4, <1>7, <2>1, <2>2, TopFacts, KeptData, IInvParts
       DEF CompTypes
<1> QED
  BY <1>5, <1>6, <1>7 DEF JavaInstalled

LEMMA NotedStep ==
  ASSUME IInv, InstallNoted \/ UpdateNoted
  PROVE  IInv'
<1>1. frames # << >> /\ Holds(Top)
  BY TopHolds DEF InstallNoted, UpdateNoted, Resumed
<1>2. Stacked' /\ comp' \in [Ids -> Component] /\ ids' \subseteq Ids
  <2>1. CASE InstallNoted
    BY <1>1, <2>1, TopFacts, IdsSubset, FinishInstallStep DEF InstallNoted
  <2>2. CASE UpdateNoted
    BY <1>1, <2>2, TopFacts, IdsSubset, FinishUpdateStep DEF UpdateNoted
  <2> QED
    BY <2>1, <2>2
<1> QED
  BY <1>1, <1>2, TopFacts, KeptData, IInvParts
     DEF InstallNoted, UpdateNoted, CompTypes

LEMMA RemoveConfirmedStep ==
  ASSUME IInv, RemoveConfirmed
  PROVE  IInv'
<1>1. Stacked' /\ CompTypes'
  BY TopFacts, BeginUninstallStep DEF RemoveConfirmed, Resumed
<1> QED
  BY <1>1, KeptData, IdsSubset, IInvParts DEF RemoveConfirmed

LEMMA RemoveDeclinedStep ==
  ASSUME IInv, RemoveDeclined
  PROVE  IInv'
<1>1. Stacked'
  BY TopFacts DEF RemoveDeclined, Resumed, Stacked
<1>2. CompTypes'
  BY TopFacts, StatusType, StatusValues DEF RemoveDeclined, Resumed, CompTypes
<1> QED
  BY <1>1, <1>2, KeptData, IdsSubset, IInvParts DEF RemoveDeclined

LEMMA UninstalledStep ==
  ASSUME IInv, Uninstalled
  PROVE  IInv'
<1> DEFINE g == [Top EXCEPT !.at = "note", !.wait = "pending"]
<1>1. frames # << >> /\ Holds(Top) /\ Top.op = "remove"
  BY TopHolds DEF Uninstalled, Resumed
<1>2. g \in Frame /\ ~Holds(g)
  BY <1>1, TopFacts DEF Frame, Waits, Holds
<1>3. Stacked'
  <2>1. CASE frames' = Below
    BY <1>1, <2>1, HolderEnds DEF Uninstalled
  <2>2. CASE frames' = Append(Below, g)
    <3> HIDE DEF g
    <3>1. Below \in Seq(Frame) /\ Sound(Below, FALSE)
      BY <1>1, TopFacts, QuietIsSound
    <3>2. frames' \in Seq(Frame) /\ Sound(frames', FALSE)
      BY <1>2, <2>2, <3>1, PushStack, PushIdle
    <3> QED
      BY <3>2 DEF Uninstalled, Stacked
  <2> QED
    BY <2>1, <2>2 DEF Uninstalled
<1>4. ids' \subseteq Ids
  BY IdsSubset DEF Uninstalled
<1> QED
  BY <1>1, <1>3, <1>4, TopFacts, KeptData, IInvParts DEF Uninstalled, CompTypes

LEMMA UninstallFailedStep ==
  ASSUME IInv, UninstallFailed
  PROVE  IInv'
<1>1. frames # << >> /\ Holds(Top)
  BY TopHolds DEF UninstallFailed, Resumed
<1>2. Stacked'
  BY <1>1, HolderEnds DEF UninstallFailed
<1>3. CompTypes'
  BY <1>1, TopFacts, StatusType, StatusValues DEF UninstallFailed, CompTypes
<1> QED
  BY <1>2, <1>3, KeptData, IdsSubset, IInvParts DEF UninstallFailed

LEMMA RemoveNotedStep ==
  ASSUME IInv, RemoveNoted
  PROVE  IInv'
<1>1. Stacked'
  BY TopFacts DEF RemoveNoted, Resumed, Stacked
<1>2. CompTypes' /\ ids' \subseteq Ids
  BY TopFacts, IdsSubset DEF RemoveNoted, Resumed, CompTypes
<1> QED
  BY <1>1, <1>2, KeptData, IInvParts DEF RemoveNoted

LEMMA DanglingStep ==
  ASSUME IInv, Dangling
  PROVE  IInv'
<1>1. Stacked' /\ CompTypes'
  BY TopFacts DEF Dangling, Stacked, CompTypes
<1> QED
  BY <1>1, KeptData, IdsSubset, IInvParts DEF Dangling

LEMMA RestartStep ==
  ASSUME IInv, Restart
  PROVE  IInv'
<1>1. Stacked' /\ CompTypes'
  BY IInvParts, RestartedStacked DEF Restart, CompTypes
<1>2. device' \subseteq Apps \cup {NoApp}
  BY DeviceType DEF Restart, IInv, TypeOK
<1>3. DataTypes'
  BY <1>2, IInvParts DEF Restart, DataTypes
<1> QED
  BY <1>1, <1>3, IInvParts

-----------------------------------------------------------------------------
(* The theorems                                                            *)

LEMMA ResumeStep ==
  ASSUME IInv, Resume
  PROVE  IInv'
  BY InstallConfirmedStep, InstallDeclinedStep, SisInstalledStep,
     JavaCancelledStep, JavaInstalledStep, NotedStep, RemoveConfirmedStep,
     RemoveDeclinedStep, UninstalledStep, UninstallFailedStep,
     RemoveNotedStep, DanglingStep
     DEF Resume

LEMMA StepIInv == IInv /\ [Next]_vars => IInv'
<1> SUFFICES ASSUME IInv, [Next]_vars PROVE IInv'
  OBVIOUS
<1>1. CASE \E state \in {"Delivered", "Download"}, app \in Apps :
             Create(state, app)
  BY <1>1, CreateStep
<1>2. CASE \E i \in ids : DownloadFailed(i) \/ DownloadComplete(i)
  BY <1>2, DownloadFailedStep, DownloadCompleteStep
<1>3. CASE \E i \in ids : Install(i) \/ RemoveNow(i) \/ RemoveTagged(i)
                          \/ RemoveInstalled(i)
  BY <1>3, InstallStep, RemoveNowStep, RemoveTaggedStep, RemoveInstalledStep
<1>4. CASE \E i, t \in ids : Update(i, t)
  BY <1>4, UpdateStep
<1>5. CASE CheckStatusNodesValuesL
  BY <1>5, CheckStatusStep
<1>6. CASE \E j \in DOMAIN frames : Answer(j) \/ Miss(j)
  BY <1>6, AnswerStep, MissStep
<1>7. CASE Resume
  BY <1>7, ResumeStep
<1>8. CASE Restart
  BY <1>8, RestartStep
<1>9. CASE UNCHANGED vars
  BY <1>9 DEF vars, IInv, TypeOK, OneRequest, Holds
<1> QED
  BY <1>1, <1>2, <1>3, <1>4, <1>5, <1>6, <1>7, <1>8, <1>9 DEF Next

\* IInv is an invariant of the server's installer, whatever the bounds.
THEOREM Invariant == Spec => []IInv
  BY InitIInv, StepIInv, PTL DEF Spec

\* Every state is well typed: every handler on the stack is one of the code's.
THEOREM TypeCorrect == Spec => []TypeOK
<1>1. IInv => TypeOK
  BY DEF IInv
<1> QED
  BY <1>1, Invariant, PTL

\* However deep the handlers nest, one at most uses the installer, and then
\* iInstallInProgress is set.
THEOREM OneRequestAlways == Spec => []OneRequest
<1>1. IInv => OneRequest
  BY DEF IInv
<1> QED
  BY <1>1, Invariant, PTL

-----------------------------------------------------------------------------
(* A handler that ends settles the status of its component                 *)

Settled(m, i) == m[i].status \notin {ERemoveProgress, EInstallProgress}

LEMMA StatusSettled ==
  ASSUME NEW m \in [Ids -> Component], NEW i \in Ids,
         NEW v \in {EIdle, EFailed, EInstalledFailedWithData,
                    EInstallFailedwithOutData}
  PROVE  Settled(WithStatus(m, i, v), i)
<1>1. WithStatus(m, i, v)[i].status = v
  BY DEF WithStatus, Component
<1> QED
  BY <1>1 DEF Settled, EIdle, EFailed, EInstalledFailedWithData,
              EInstallFailedwithOutData, ERemoveProgress, EInstallProgress

LEMMA InstalledSettled ==
  ASSUME NEW m \in [Ids -> Component], NEW i \in Ids, NEW inactive \in BOOLEAN
  PROVE  Settled(AsInstalled(m, i, inactive), i)
<1>1. AsInstalled(m, i, inactive)[i].status = EIdle
  BY DEF AsInstalled, Component
<1> QED
  BY <1>1 DEF Settled, EIdle, ERemoveProgress, EInstallProgress

\* A handler that goes on to wait again does not end.
LEMMA PushIsNotEnd ==
  ASSUME NEW s \in Seq(Frame), NEW f \in Frame
  PROVE  Append(s, f) # s
<1>1. Len(Append(s, f)) = Len(s) + 1 /\ Len(s) \in Nat
  BY PushStack
<1> QED
  BY <1>1

LEMMA ConfirmedSettles ==
  ASSUME IInv, InstallConfirmed, frames' = Below, ~Panics
  PROVE  Settled(comp', Top.id)
<1> DEFINE g == [Top EXCEPT !.at = "working", !.wait = "pending"]
<1>1. frames # << >> /\ Top.at = "confirm"
  BY DEF InstallConfirmed, Resumed
<1>2. g \in Frame /\ Below \in Seq(Frame)
  BY <1>1, TopFacts DEF Frame, Waits
<1>3. ~AskInstaller(WithStatus(comp, Top.id, EInstallProgress), Below, g, iComp)
  <2> HIDE DEF g
  <2>1. Append(Below, g) # Below
    BY <1>2, PushIsNotEnd
  <2>2. ~(iInstallInProgress /\ Restarted)
    BY <1>1 DEF Panics, Restarted
  <2> QED
    BY <2>1, <2>2 DEF AskInstaller
<1>4. comp' = WithStatus(comp, Top.id, EInstalledFailedWithData)
  BY <1>3 DEF InstallConfirmed, BeginInstall
<1> QED
  BY <1>1, <1>4, TopFacts, StatusSettled

LEMMA DeclinedSettles ==
  ASSUME IInv, InstallDeclined \/ RemoveDeclined
  PROVE  Settled(comp', Top.id)
  BY TopFacts, StatusSettled, InstalledSettled
     DEF InstallDeclined, RemoveDeclined, Resumed

\* The note of InstallCompleteL follows, or the component is installed.
LEMMA CompleteSettles ==
  ASSUME IInv, frames # << >>, NEW I, NEW m \in [Ids -> Component],
         InstallComplete(I, m, Below, Top), frames' = Below
  PROVE  Settled(comp', Top.id)
<1> DEFINE g == [Top EXCEPT !.at = "note", !.wait = "pending"]
<1>1. g \in Frame /\ Below \in Seq(Frame)
  BY TopFacts DEF Frame, Waits
<1>2. frames' # Append(Below, g)
  <2> HIDE DEF g
  <2> QED
    BY <1>1, PushIsNotEnd
<1>3. comp' = AsInstalled(m, Top.id, Top.inactive)
  BY <1>2 DEF InstallComplete, FinishInstall
<1> QED
  BY <1>3, TopFacts, InstalledSettled

LEMMA SisSettles ==
  ASSUME IInv, SisInstalled, frames' = Below
  PROVE  Settled(comp', Top.id)
<1> DEFINE id == GivenId(Top.id)
           m == [comp EXCEPT ![iComp].compId = id]
<1>1. frames # << >>
  BY DEF SisInstalled, Resumed
<1>2. m \in [Ids -> Component]
  <2>1. id \in Apps \cup {NoApp}
    BY <1>1, GivenType
  <2> HIDE DEF id
  <2>2. \A i \in Ids : [comp[i] EXCEPT !.compId = id] \in Component
    BY <1>1, <2>1, TopFacts DEF Component
  <2> QED
    BY <1>1, <2>2, TopFacts
<1>3. \/ InstallComplete(ids, WithStatus(m, Top.id, EIdle), Below, Top)
      \/ comp' = WithStatus(m, Top.id, EIdle)
      \/ comp' = WithStatus(m, Top.id, EInstalledFailedWithData)
  BY DEF SisInstalled
<1> HIDE DEF m
<1>4. WithStatus(m, Top.id, EIdle) \in [Ids -> Component]
  BY <1>1, <1>2, TopFacts, StatusType, StatusValues
<1> QED
  BY <1>1, <1>2, <1>3, <1>4, TopFacts, StatusSettled, CompleteSettles

LEMMA JavaCancelledSettles ==
  ASSUME IInv, JavaCancelled
  PROVE  Settled(comp', Top.id)
<1> DEFINE m == [comp EXCEPT ![Top.id].compId = NoApp]
<1>1. frames # << >> /\ comp' = WithStatus(m, Top.id, EInstalledFailedWithData)
  BY DEF JavaCancelled, Resumed
<1>2. m \in [Ids -> Component]
  BY <1>1, TopFacts DEF Component
<1> HIDE DEF m
<1> QED
  BY <1>1, <1>2, TopFacts, StatusSettled

LEMMA JavaSettles ==
  ASSUME IInv, JavaInstalled, frames' = Below, ~Panics
  PROVE  Settled(comp', Top.id)
<1> DEFINE n(uid) == [comp EXCEPT ![Top.id] =
                        [@ EXCEPT !.compId = GivenId(Top.id), !.uid = uid]]
           m(uid) == WithStatus(n(uid), Top.id, EIdle)
           I == ids \ DuplicateMidlets
<1>1. frames # << >> /\ ~ReadsBehindTheEnd
  BY DEF JavaInstalled, Resumed, Panics
<1>2. PICK uid \in Apps \cup {NoApp} :
        InstallComplete(I, m(uid), Below, Top) \/ comp' = m(uid)
  BY <1>1 DEF JavaInstalled
<1>3. n(uid) \in [Ids -> Component]
  <2>1. [comp[Top.id] EXCEPT !.compId = GivenId(Top.id), !.uid = uid]
          \in Component
    BY <1>1, GivenType, TopFacts DEF Component
  <2> QED
    BY <1>1, <2>1, TopFacts
<1> HIDE DEF n, I
<1>4. m(uid) \in [Ids -> Component] /\ Settled(m(uid), Top.id)
  BY <1>1, <1>3, TopFacts, StatusType, StatusValues, StatusSettled
<1> HIDE DEF m
<1> QED
  BY <1>1, <1>2, <1>4, CompleteSettles

LEMMA NotedSettles ==
  ASSUME IInv, InstallNoted \/ UpdateNoted
  PROVE  Settled(comp', Top.id)
<1>1. frames # << >>
  BY DEF InstallNoted, UpdateNoted, Resumed
<1>2. CASE InstallNoted
  BY <1>1, <1>2, TopFacts, InstalledSettled DEF InstallNoted, FinishInstall
<1>3. CASE UpdateNoted
  <2> DEFINE m == [comp EXCEPT ![Top.other].state = "Delete"]
  <2>1. m \in [Ids -> Component]
    BY <1>1, TopFacts DEF Component, States
  <2>2. comp' = AsInstalled(m, Top.id, Top.inactive)
    BY <1>3 DEF UpdateNoted, FinishUpdate
  <2> HIDE DEF m
  <2> QED
    BY <1>1, <2>1, <2>2, TopFacts, InstalledSettled
<1> QED
  BY <1>2, <1>3

\* A removal that ends has removed its component, or failed.
LEMMA RemovalSettles ==
  ASSUME IInv, RemoveConfirmed \/ Uninstalled \/ UninstallFailed \/ RemoveNoted,
         frames' = Below, Top.id \in ids', ~Panics
  PROVE  Settled(comp', Top.id)
<1>1. frames # << >>
  BY DEF RemoveConfirmed, Uninstalled, UninstallFailed, RemoveNoted, Resumed
<1>2. Below \in Seq(Frame) /\ Top \in Frame /\ Top.id \in Ids
  BY <1>1, TopFacts
<1>3. ~RemoveConfirmed
  <2> DEFINE f == Wait("client", "remove", Top.id, "working", "pending", FALSE)
             g == [f EXCEPT !.wait = "never"]
  <2>1. f \in Frame
    BY <1>2, WaitType DEF Waits
  <2>2. g \in Frame
    BY <2>1 DEF Frame, Waits
  <2> HIDE DEF g, f
  <2>3. Append(Below, f) # Below /\ Append(Below, g) # Below
    BY <1>2, <2>1, <2>2, PushIsNotEnd
  <2>4. RemoveConfirmed => ~(iInstallInProgress /\ Restarted)
    BY DEF Panics, Restarted, RemoveConfirmed, Resumed
  <2> QED
    BY <2>3, <2>4 DEF RemoveConfirmed, BeginUninstall, AskInstaller, f, g
<1>4. ~Uninstalled
  <2> DEFINE g == [Top EXCEPT !.at = "note", !.wait = "pending"]
  <2>1. g \in Frame
    BY <1>2 DEF Frame, Waits
  <2> HIDE DEF g
  <2>2. Append(Below, g) # Below
    BY <1>2, <2>1, PushIsNotEnd
  <2> QED
    BY <2>2 DEF Uninstalled, g
<1>5. ~RemoveNoted
  BY DEF RemoveNoted
<1>6. comp' = WithStatus(comp, Top.id, EFailed)
  BY <1>3, <1>4, <1>5 DEF UninstallFailed
<1> QED
  BY <1>1, <1>6, TopFacts, StatusSettled

\* Every handler that ends leaves a status that says how, unless it panics or
\* its component was removed under it.
THEOREM HandlersSettle == Spec => HandlersSettleStatus
<1> DEFINE A == \A i \in ids \cap ids' :
       Resume /\ Top.id = i /\ Top.other \in ids /\ frames' = Below /\ ~Panics
         => comp'[i].status \notin {ERemoveProgress, EInstallProgress}
<1>1. IInv => A
  <2> SUFFICES ASSUME IInv, NEW i \in ids \cap ids', Resume, Top.id = i,
                      Top.other \in ids, frames' = Below, ~Panics
               PROVE  Settled(comp', Top.id)
    BY DEF Settled
  <2>1. ~Dangling
    BY DEF Dangling
  <2> QED
    BY <2>1, ConfirmedSettles, DeclinedSettles, SisSettles,
       JavaCancelledSettles, JavaSettles, NotedSettles, RemovalSettles
       DEF Resume
<1>2. IInv => [A]_vars
  BY <1>1
<1> QED
  BY <1>2, Invariant, PTL DEF HandlersSettleStatus
-----------------------------------------------------------------------------
(* What turns active is installed                                          *)

\* The application of component i, if it is a SIS one, is among those of d.
OnDevice(m, d, i) == m[i].app \in SisApps => m[i].app \in d

\* The handler f has the installer's answer that the application is there.
Delivers(f) ==
  Holds(f) /\ (f.at = "note" \/ (f.op = "install" /\ f.wait = "ok"))

\* The handler f, or each on the stack s, has a component with an id below n,
\* and the application is there if it delivers one.
Fits(m, d, n, f) == f.id < n /\ (Delivers(f) => OnDevice(m, d, f.id))
StackFits(m, d, n, s) == \A j \in DOMAIN s : Fits(m, d, n, s[j])

DInv ==
  /\ IInv
  /\ \A i \in ids : i < nextId
  /\ StackFits(comp, device, nextId, frames)

\* From the components m to m2 no application changes, and only what is
\* installed turns active.
Carries(m, m2, d) ==
  \A i \in Ids :
    /\ m2[i].app = m[i].app
    /\ m2[i].state = "Active" => m[i].state = "Active" \/ OnDevice(m, d, i)

LEMMA CarriesItself == \A m, d : Carries(m, m, d)
  BY DEF Carries

LEMMA CarriesOn ==
  ASSUME NEW m, NEW m2, NEW m3, NEW d, Carries(m, m2, d), Carries(m2, m3, d)
  PROVE  Carries(m, m3, d)
  BY DEF Carries, OnDevice

LEMMA CarriesStatus ==
  ASSUME NEW m \in [Ids -> Component], NEW d, NEW i \in Ids, NEW v
  PROVE  Carries(m, WithStatus(m, i, v), d)
  BY DEF Carries, WithStatus, Component

\* InstalledL of a component that is installed, or with DeactivateL after it.
LEMMA CarriesInstalled ==
  ASSUME NEW m \in [Ids -> Component], NEW d, NEW i \in Ids, NEW inactive,
         inactive \/ OnDevice(m, d, i)
  PROVE  Carries(m, AsInstalled(m, i, inactive), d)
  BY DEF Carries, AsInstalled, Component

LEMMA CarriesDelete ==
  ASSUME NEW m \in [Ids -> Component], NEW d, NEW t \in Ids
  PROVE  Carries(m, [m EXCEPT ![t].state = "Delete"], d)
  BY DEF Carries, Component

LEMMA FitsOn ==
  ASSUME NEW m, NEW m2, NEW d, NEW n, NEW s \in Seq(Frame),
         StackFits(m, d, n, s), Carries(m, m2, d)
  PROVE  StackFits(m2, d, n, s)
<1> SUFFICES ASSUME NEW j \in DOMAIN s PROVE Fits(m2, d, n, s[j])
  BY DEF StackFits
<1>1. s[j] \in Frame /\ Fits(m, d, n, s[j])
  BY DEF StackFits
<1>2. s[j].id \in Ids
  BY <1>1 DEF Frame
<1> QED
  BY <1>1, <1>2 DEF Fits, OnDevice, Carries

LEMMA FitsGrown ==
  ASSUME NEW m, NEW d, NEW d2, NEW n, NEW s, StackFits(m, d, n, s), d \subseteq d2
  PROVE  StackFits(m, d2, n, s)
  BY DEF StackFits, Fits, OnDevice

LEMMA FitsPush ==
  ASSUME NEW m, NEW d, NEW n, NEW s \in Seq(Frame), NEW f \in Frame,
         StackFits(m, d, n, s), Fits(m, d, n, f)
  PROVE  StackFits(m, d, n, Append(s, f))
<1> SUFFICES ASSUME NEW j \in DOMAIN Append(s, f)
             PROVE  Fits(m, d, n, Append(s, f)[j])
  BY DEF StackFits
<1>1. CASE j \in DOMAIN s
  BY <1>1, PushStack DEF StackFits
<1>2. CASE j = Len(s) + 1
  BY <1>2, PushStack
<1> QED
  BY <1>1, <1>2, PushStack

\* The stack below the innermost handler, and that handler.
LEMMA FitsBelow ==
  ASSUME DInv, frames # << >>
  PROVE  /\ StackFits(comp, device, nextId, Below)
         /\ Fits(comp, device, nextId, Top)
<1>1. frames \in Seq(Frame)
  BY DEF DInv, IInv, TypeOK
<1> QED
  BY <1>1, BelowStack DEF DInv, StackFits, Below, Top

-----------------------------------------------------------------------------
(* The steps of the handlers, from the components m                        *)

Reaches(m) ==
  /\ Carries(m, comp', device')
  /\ StackFits(comp', device', nextId, frames')

LEMMA ReachesEnd ==
  ASSUME NEW m, NEW s \in Seq(Frame), StackFits(m, device', nextId, s),
         Carries(m, comp', device'), frames' = s
  PROVE  Reaches(m)
  BY FitsOn DEF Reaches

LEMMA ReachesPush ==
  ASSUME NEW m, NEW s \in Seq(Frame), StackFits(m, device', nextId, s),
         NEW f \in Frame, Fits(m, device', nextId, f), comp' = m,
         frames' = Append(s, f)
  PROVE  Reaches(m)
  BY FitsPush, CarriesItself DEF Reaches

LEMMA RestartedReaches ==
  ASSUME Restarted, NEW m, comp' = m
  PROVE  Reaches(m)
  BY CarriesItself DEF Restarted, Reaches, StackFits

LEMMA AskReaches ==
  ASSUME NEW m, NEW s \in Seq(Frame), StackFits(m, device', nextId, s),
         NEW f \in Frame, Fits(m, device', nextId, f), NEW c,
         AskInstaller(m, s, f, c)
  PROVE  Reaches(m)
<1>1. CASE frames' = Append(s, f)
  BY <1>1, ReachesPush DEF AskInstaller
<1>2. CASE Restarted
  BY <1>2, RestartedReaches DEF AskInstaller
<1> QED
  BY <1>1, <1>2 DEF AskInstaller

LEMMA BeginInstallReaches ==
  ASSUME NEW m \in [Ids -> Component], NEW s \in Seq(Frame),
         StackFits(m, device', nextId, s), NEW f \in Frame, f.id < nextId,
         NEW c, BeginInstall(m, s, f, c)
  PROVE  Reaches(m)
<1> DEFINE g == [f EXCEPT !.at = "working", !.wait = "pending"]
           n == WithStatus(m, f.id, EInstallProgress)
<1>1. f.id \in Ids /\ g \in Frame
  BY DEF Frame, Waits
<1>2. Fits(n, device', nextId, g)
  BY DEF Fits, Delivers, Frame
<1>3. Carries(m, n, device')
  BY <1>1, CarriesStatus
<1>4. CASE AskInstaller(n, s, g, c)
  <2> HIDE DEF g, n
  <2>1. StackFits(n, device', nextId, s)
    BY <1>3, FitsOn
  <2>2. Reaches(n)
    BY <1>1, <1>2, <1>4, <2>1, AskReaches
  <2> QED
    BY <1>3, <2>2, CarriesOn DEF Reaches
<1>5. CASE comp' = WithStatus(m, f.id, EInstalledFailedWithData) /\ frames' = s
  <2>1. Carries(m, comp', device')
    BY <1>1, <1>5, CarriesStatus
  <2> QED
    BY <1>5, <2>1, ReachesEnd
<1> QED
  BY <1>4, <1>5 DEF BeginInstall

LEMMA DoTheInstallReaches ==
  ASSUME NEW m \in [Ids -> Component], NEW s \in Seq(Frame),
         StackFits(m, device', nextId, s), NEW who \in {"client", "download"},
         NEW i \in Ids, i < nextId, NEW inactive \in BOOLEAN,
         DoTheInstallL(m, s, who, i, inactive)
  PROVE  Reaches(m)
<1> DEFINE f == Wait(who, "install", i, "confirm", "pending", inactive)
<1>1. f \in Frame
  BY WaitType DEF Waits
<1>2. f.id < nextId /\ Fits(m, device', nextId, f)
  BY DEF Wait, Fits, Delivers, Holds
<1> HIDE DEF f
<1>3. CASE comp' = m /\ frames' = Append(s, f)
  BY <1>1, <1>2, <1>3, ReachesPush
<1>4. CASE BeginInstall(m, s, f, i)
  BY <1>1, <1>2, <1>4, BeginInstallReaches
<1> QED
  BY <1>3, <1>4 DEF DoTheInstallL, f

LEMMA BeginUninstallReaches ==
  ASSUME NEW m, NEW s \in Seq(Frame), StackFits(m, device', nextId, s),
         NEW i \in Ids, i < nextId, BeginUninstall(m, s, i)
  PROVE  Reaches(m)
<1> DEFINE f == Wait("client", "remove", i, "working", "pending", FALSE)
           g == [f EXCEPT !.wait = "never"]
<1>1. f \in Frame
  BY WaitType DEF Waits
<1>2. g \in Frame
  BY <1>1 DEF Frame, Waits
<1>3. Fits(m, device', nextId, f) /\ Fits(m, device', nextId, g)
  BY DEF Wait, Fits, Delivers, Holds
<1> HIDE DEF f, g
<1>4. CASE AskInstaller(m, s, f, iComp)
  BY <1>1, <1>3, <1>4, AskReaches
<1>5. CASE comp' = m /\ frames' = Append(s, g)
  BY <1>2, <1>3, <1>5, ReachesPush
<1> QED
  BY <1>4, <1>5 DEF BeginUninstall, f, g

LEMMA FinishInstallReaches ==
  ASSUME NEW I, NEW m \in [Ids -> Component], NEW s \in Seq(Frame),
         StackFits(m, device', nextId, s), NEW i \in Ids, NEW inactive,
         OnDevice(m, device', i), FinishInstall(I, m, s, i, inactive)
  PROVE  Reaches(m) /\ ids' \subseteq I
<1>1. Carries(m, comp', device')
  BY CarriesInstalled DEF FinishInstall
<1> QED
  BY <1>1, ReachesEnd DEF FinishInstall

LEMMA InstallCompleteReaches ==
  ASSUME NEW I, NEW m \in [Ids -> Component], NEW s \in Seq(Frame),
         StackFits(m, device', nextId, s), NEW f \in Frame, f.id < nextId,
         OnDevice(m, device', f.id), InstallComplete(I, m, s, f)
  PROVE  Reaches(m) /\ ids' \subseteq I
<1> DEFINE g == [f EXCEPT !.at = "note", !.wait = "pending"]
<1>1. g \in Frame /\ f.id \in Ids
  BY DEF Frame, Waits
<1>2. Fits(m, device', nextId, g)
  BY DEF Fits, Frame
<1> HIDE DEF g
<1>3. CASE ids' = I /\ comp' = m /\ frames' = Append(s, g)
  BY <1>1, <1>2, <1>3, ReachesPush
<1>4. CASE FinishInstall(I, m, s, f.id, f.inactive)
  BY <1>1, <1>4, FinishInstallReaches
<1> QED
  BY <1>3, <1>4 DEF InstallComplete, g

LEMMA FinishUpdateReaches ==
  ASSUME NEW m \in [Ids -> Component], NEW s \in Seq(Frame),
         StackFits(m, device', nextId, s), NEW i \in Ids, NEW t \in Ids,
         NEW inactive, OnDevice(m, device', i),
         FinishUpdate(m, s, i, t, inactive)
  PROVE  Reaches(m)
<1> DEFINE n == [m EXCEPT ![t].state = "Delete"]
<1>1. n \in [Ids -> Component] /\ Carries(m, n, device')
  BY CarriesDelete DEF Component, States
<1>2. OnDevice(n, device', i)
  BY <1>1 DEF Carries, OnDevice
<1>3. comp' = AsInstalled(n, i, inactive) /\ frames' = s
  BY DEF FinishUpdate
<1> HIDE DEF n
<1>4. Carries(m, comp', device')
  BY <1>1, <1>2, <1>3, CarriesInstalled, CarriesOn
<1> QED
  BY <1>3, <1>4, ReachesEnd

LEMMA FullUpdateReaches ==
  ASSUME NEW m \in [Ids -> Component], NEW s \in Seq(Frame),
         StackFits(m, device, nextId, s), NEW who \in {"client", "download"},
         NEW i \in Ids, NEW t \in Ids, i < nextId, NEW inactive \in BOOLEAN,
         FullUpdateL(m, s, who, i, t, inactive)
  PROVE  Reaches(m)
<1> DEFINE f == [Wait(who, "update", i, "note", "pending", inactive)
                   EXCEPT !.other = t]
           installed == device \cup {m[i].app}
<1>1. Wait(who, "update", i, "note", "pending", inactive) \in Frame
  BY WaitType DEF Waits
<1>2. f \in Frame /\ f.id = i
  BY <1>1 DEF Frame, Wait
<1>3. device \subseteq device'
  BY DEF FullUpdateL
<1>4. StackFits(m, device', nextId, s)
  BY <1>3, FitsGrown
<1>5. device' = installed => OnDevice(m, device', i)
  BY DEF OnDevice
<1> HIDE DEF f, installed
<1>6. CASE comp' = m /\ frames' = s
  BY <1>4, <1>6, CarriesItself, ReachesEnd
<1>7. CASE device' = installed /\ comp' = m /\ frames' = Append(s, f)
  BY <1>2, <1>4, <1>5, <1>7, ReachesPush DEF Fits
<1>8. CASE device' = installed /\ FinishUpdate(m, s, i, t, inactive)
  BY <1>4, <1>5, <1>8, FinishUpdateReaches
<1> QED
  BY <1>6, <1>7, <1>8 DEF FullUpdateL, f, installed
-----------------------------------------------------------------------------
(* Every step but a creation                                               *)

Goes == Reaches(comp) /\ ids' \subseteq ids /\ UNCHANGED nextId

LEMMA DInvFacts ==
  ASSUME DInv
  PROVE  /\ comp \in [Ids -> Component] /\ frames \in Seq(Frame)
         /\ StackFits(comp, device, nextId, frames)
         /\ ids \subseteq Ids /\ \A i \in ids : i \in Ids /\ i < nextId
         /\ \A j \in DOMAIN frames : frames[j] \in Frame
  BY DEF DInv, IInv, TypeOK

\* A step that leaves the handlers alone and installs nothing.
LEMMA StillGoes ==
  ASSUME DInv, UNCHANGED <<device, frames, nextId>>, ids' \subseteq ids,
         Carries(comp, comp', device)
  PROVE  Goes
  BY DInvFacts, ReachesEnd DEF Goes

LEMMA DownloadGoes ==
  ASSUME DInv, NEW i \in ids, DownloadFailed(i) \/ DownloadComplete(i)
  PROVE  Goes
<1>1. CASE DownloadFailed(i)
  <2>1. Carries(comp, comp', device)
    BY <1>1, DInvFacts, CarriesStatus, CarriesItself DEF DownloadFailed
  <2> QED
    BY <1>1, <2>1, StillGoes DEF DownloadFailed
<1>2. CASE DownloadComplete(i)
  <2> DEFINE uid == IF comp[i].app \in SisApps THEN comp[i].app ELSE NoApp
             c == [comp[i] EXCEPT !.state = "Delivered", !.status = EIdle,
                                  !.uid = uid]
             m == [comp EXCEPT ![i] = [@ EXCEPT !.state = "Delivered",
                                                !.status = EIdle, !.uid = uid]]
  <2>1. i \in Ids /\ i < nextId /\ comp \in [Ids -> Component]
        /\ comp[i] \in Component
    BY DInvFacts
  <2>2. c \in Component
    BY <2>1, StatusValues DEF Component, States, Apps
  <2>3. c.app = comp[i].app /\ c.state = "Delivered"
    BY <2>1 DEF Component
  <2>4. m = [comp EXCEPT ![i] = c]
    OBVIOUS
  <2>5. m \in [Ids -> Component]
    <3> HIDE DEF m, c
    <3> QED
      BY <2>1, <2>2, <2>4
  <2>6. \A d : Carries(comp, m, d)
    <3> HIDE DEF m, c
    <3> QED
      BY <2>1, <2>3, <2>4 DEF Carries
  <2>7. StackFits(m, device, nextId, frames)
    <3> HIDE DEF m
    <3> QED
      BY <2>6, DInvFacts, FitsOn
  <2> HIDE DEF m
  <2>8. Reaches(m)
    <3>1. CASE comp' = m /\ UNCHANGED <<device, frames>>
      BY <2>7, <3>1, DInvFacts, CarriesItself, ReachesEnd
    <3>2. CASE /\ UNCHANGED device
               /\ \E inactive \in BOOLEAN :
                    DoTheInstallL(m, frames, "download", i, inactive)
      BY <2>1, <2>5, <2>7, <3>2, DInvFacts, DoTheInstallReaches
    <3>3. CASE \E inactive \in BOOLEAN, t \in LastWithUid(ids, m, i) :
                 FullUpdateL(m, frames, "download", i, t, inactive)
      <4>1. LastWithUid(ids, m, i) \subseteq Ids
        BY DInvFacts DEF LastWithUid
      <4> QED
        BY <2>1, <2>5, <2>7, <3>3, <4>1, DInvFacts, FullUpdateReaches
    <3> QED
      BY <1>2, <3>1, <3>2, <3>3 DEF DownloadComplete, m
  <2>9. Reaches(comp)
    BY <2>6, <2>8, CarriesOn DEF Reaches
  <2> QED
    BY <1>2, <2>9 DEF DownloadComplete, Goes
<1> QED
  BY <1>1, <1>2

LEMMA RequestGoes ==
  ASSUME DInv, NEW i \in ids, NEW t \in ids,
         \/ Install(i) \/ Update(i, t) \/ RemoveNow(i) \/ RemoveTagged(i)
         \/ RemoveInstalled(i)
  PROVE  Goes
<1>1. /\ i \in Ids /\ i < nextId /\ t \in Ids
      /\ comp \in [Ids -> Component] /\ frames \in Seq(Frame)
      /\ StackFits(comp, device, nextId, frames)
  BY DInvFacts
<1>2. CASE Install(i)
  BY <1>1, <1>2, DoTheInstallReaches DEF Install, Goes
<1>3. CASE Update(i, t)
  BY <1>1, <1>3, FullUpdateReaches DEF Update, Goes
<1>4. Carries(comp, WithStatus(comp, i, ERemoveProgress), device)
  BY <1>1, CarriesStatus
<1>5. CASE RemoveNow(i) \/ RemoveTagged(i)
  BY <1>4, <1>5, StillGoes DEF RemoveNow, RemoveTagged
<1>6. CASE RemoveInstalled(i)
  <2> DEFINE m == WithStatus(comp, i, ERemoveProgress)
             f == Wait("client", "remove", i, "confirm", "pending", FALSE)
  <2>1. UNCHANGED <<ids, nextId, device>>
    BY <1>6 DEF RemoveInstalled
  <2>2. StackFits(m, device', nextId, frames)
    BY <1>1, <1>4, <2>1, FitsOn
  <2>3. f \in Frame
    BY <1>1, WaitType DEF Waits
  <2>4. Fits(m, device', nextId, f)
    BY <1>1 DEF Wait, Fits, Delivers, Holds
  <2> HIDE DEF m, f
  <2>5. Reaches(m)
    <3>1. CASE comp' = m /\ frames' = Append(frames, f)
      BY <1>1, <2>2, <2>3, <2>4, <3>1, ReachesPush
    <3>2. CASE BeginUninstall(m, frames, i)
      BY <1>1, <2>2, <3>2, BeginUninstallReaches
    <3> QED
      BY <1>6, <3>1, <3>2 DEF RemoveInstalled, m, f
  <2> QED
    BY <1>4, <2>1, <2>5, CarriesOn DEF Goes, Reaches, m
<1> QED
  BY <1>2, <1>3, <1>5, <1>6

LEMMA CheckStatusGoes ==
  ASSUME DInv, CheckStatusNodesValuesL
  PROVE  Goes
<1> DEFINE next(v) == CASE v = 30 -> 20 [] v = 40 -> 50 [] v = 50 -> 40
                        [] OTHER -> v
<1>1. comp' = [i \in Ids |-> IF i \in ids
                 THEN [comp[i] EXCEPT !.status = next(@)] ELSE comp[i]]
  BY DEF CheckStatusNodesValuesL
<1>2. \A i \in Ids : comp[i] \in Component
  BY DInvFacts
<1> HIDE DEF next
<1>3. \A i \in Ids : comp'[i].app = comp[i].app /\ comp'[i].state = comp[i].state
  BY <1>1, <1>2 DEF Component
<1>4. Carries(comp, comp', device)
  BY <1>3 DEF Carries
<1> QED
  BY <1>4, StillGoes DEF CheckStatusNodesValuesL

\* An answer takes an application from the device only while no other handler
\* has one to deliver.
LEMMA AnswerGoes ==
  ASSUME DInv, NEW j \in DOMAIN frames, Answer(j)
  PROVE  Goes
<1>1. PICK r \in Outcomes(frames[j]) :
        /\ frames' = [frames EXCEPT ![j].wait = r]
        /\ device' = IF frames[j].at = "working" /\ r = "ok"
                       THEN DeviceAfter(frames[j]) ELSE device
  BY DEF Answer
<1> DEFINE g == [frames[j] EXCEPT !.wait = r]
<1>2. frames[j] \in Frame /\ frames \in Seq(Frame) /\ frames[j].wait = "pending"
  BY DInvFacts DEF Answer
<1>3. /\ g.id = frames[j].id /\ g.at = frames[j].at /\ g.op = frames[j].op
      /\ g.wait = r
  BY <1>2 DEF Frame
<1>4. /\ DOMAIN frames' = DOMAIN frames
      /\ \A k \in DOMAIN frames : frames'[k] = IF k = j THEN g ELSE frames[k]
  BY <1>1, <1>2
<1>5. \A k \in DOMAIN frames : Fits(comp, device, nextId, frames[k])
  BY DEF DInv, StackFits
<1> HIDE DEF g
<1>6. Fits(comp, device', nextId, g)
  <2>1. g.id < nextId
    BY <1>3, <1>5 DEF Fits
  <2>2. CASE g.at = "note"
    BY <1>1, <1>2, <1>3, <1>5, <2>1, <2>2 DEF Fits, Delivers, Holds
  <2>3. CASE g.op = "install" /\ g.at = "working" /\ r = "ok"
    <3>1. device' = device \cup {comp[g.id].app}
      BY <1>1, <1>3, <2>3 DEF DeviceAfter
    <3> QED
      BY <2>1, <3>1 DEF Fits, OnDevice
  <2>4. CASE ~Delivers(g)
    BY <2>1, <2>4 DEF Fits
  <2> QED
    BY <1>3, <2>2, <2>3, <2>4 DEF Delivers, Holds
<1>7. ASSUME NEW k \in DOMAIN frames, k # j
      PROVE  Fits(comp, device', nextId, frames[k])
  <2>1. CASE frames[j].at = "working"
    <3>1. Holds(frames[j])
      BY <1>2, <2>1 DEF Holds
    <3>2. ~Holds(frames[k])
      BY <1>7, <3>1 DEF DInv, IInv, OneRequest
    <3> QED
      BY <1>5, <3>2 DEF Fits, Delivers
  <2>2. CASE frames[j].at # "working"
    BY <1>1, <1>5, <2>2
  <2> QED
    BY <2>1, <2>2
<1>8. StackFits(comp', device', nextId, frames')
  BY <1>4, <1>6, <1>7 DEF StackFits, Answer
<1> QED
  BY <1>8, CarriesItself DEF Goes, Reaches, Answer

LEMMA MissGoes ==
  ASSUME DInv, NEW j \in DOMAIN frames, Miss(j)
  PROVE  Goes
<1> DEFINE g == [frames[j] EXCEPT !.wait = "missed"]
<1>1. frames[j] \in Frame /\ frames \in Seq(Frame)
  BY DInvFacts
<1>2. /\ g.id = frames[j].id /\ g.at = frames[j].at /\ g.op = frames[j].op
      /\ g.wait = "missed"
  BY <1>1 DEF Frame
<1>3. /\ DOMAIN frames' = DOMAIN frames
      /\ \A k \in DOMAIN frames : frames'[k] = IF k = j THEN g ELSE frames[k]
  BY <1>1 DEF Miss
<1>4. \A k \in DOMAIN frames : Fits(comp, device, nextId, frames[k])
  BY DEF DInv, StackFits
<1> HIDE DEF g
<1>5. Fits(comp, device, nextId, g)
  <2>1. Delivers(g) => Delivers(frames[j])
    BY <1>2 DEF Delivers, Holds, Miss, Results
  <2> QED
    BY <1>2, <1>4, <2>1 DEF Fits
<1>6. StackFits(comp', device', nextId, frames')
  BY <1>3, <1>4, <1>5 DEF StackFits, Miss
<1> QED
  BY <1>6, CarriesItself DEF Goes, Reaches, Miss
-----------------------------------------------------------------------------
(* The innermost handler goes on                                           *)

\* What these steps may rely on.
LEMMA ResumedFacts ==
  ASSUME DInv, frames # << >>
  PROVE  /\ StackFits(comp, device, nextId, Below)
         /\ Fits(comp, device, nextId, Top) /\ Top.id < nextId
         /\ Top \in Frame /\ Top.id \in Ids /\ Top.other \in Ids
         /\ Below \in Seq(Frame) /\ comp \in [Ids -> Component]
  BY FitsBelow, TopFacts DEF DInv, Fits

\* A handler that ends and changes the components to what m carries.
LEMMA EndGoes ==
  ASSUME DInv, frames # << >>, frames' = Below, UNCHANGED kept,
         ids' \subseteq ids, Carries(comp, comp', device)
  PROVE  Goes
  BY ResumedFacts, ReachesEnd DEF Goes, kept

LEMMA ConfirmedGoes ==
  ASSUME DInv, InstallConfirmed \/ RemoveConfirmed
  PROVE  Goes
  BY ResumedFacts, BeginInstallReaches, BeginUninstallReaches
     DEF InstallConfirmed, RemoveConfirmed, Resumed, kept, Goes

LEMMA DeclinedGoes ==
  ASSUME DInv, InstallDeclined \/ RemoveDeclined \/ UninstallFailed
  PROVE  Goes
<1>1. frames # << >> /\ frames' = Below /\ UNCHANGED <<ids, kept>>
  BY DEF InstallDeclined, RemoveDeclined, UninstallFailed, Resumed
<1>2. Carries(comp, comp', device)
  BY <1>1, ResumedFacts, CarriesStatus, CarriesInstalled
     DEF InstallDeclined, RemoveDeclined, UninstallFailed
<1> QED
  BY <1>1, <1>2, EndGoes

\* Of m, which differs from the components in what the installer told.
LEMMA CompleteGoes ==
  ASSUME DInv, frames # << >>, UNCHANGED kept, NEW m \in [Ids -> Component],
         Carries(comp, m, device), OnDevice(comp, device, Top.id),
         NEW I \in SUBSET ids, InstallComplete(I, m, Below, Top)
  PROVE  Goes
<1>1. StackFits(m, device', nextId, Below)
  BY ResumedFacts, FitsOn DEF kept
<1>2. OnDevice(m, device', Top.id)
  BY ResumedFacts DEF kept, OnDevice, Carries
<1>3. Reaches(m) /\ ids' \subseteq I
  BY <1>1, <1>2, ResumedFacts, InstallCompleteReaches
<1> QED
  BY <1>3, CarriesOn DEF Goes, Reaches, kept

LEMMA SisGoes ==
  ASSUME DInv, SisInstalled
  PROVE  Goes
<1> DEFINE id == GivenId(Top.id)
           m == [comp EXCEPT ![iComp].compId = id]
           n == WithStatus(m, Top.id, EIdle)
<1>1. frames # << >> /\ UNCHANGED kept /\ iComp \in Ids \cup {0} /\ IInv
  BY DEF SisInstalled, Resumed, DInv, IInv, TypeOK
<1>2. m \in [Ids -> Component]
  <2>1. id \in Apps \cup {NoApp}
    BY <1>1, GivenType
  <2> HIDE DEF id
  <2>2. \A i \in Ids : [comp[i] EXCEPT !.compId = id] \in Component
    BY <1>1, <2>1, ResumedFacts DEF Component
  <2> QED
    BY <1>1, <2>2, ResumedFacts
<1>3. Carries(comp, m, device)
  <2> HIDE DEF id
  <2> QED
    BY <1>1, ResumedFacts DEF Carries, Component
<1> HIDE DEF m
<1>4. \A v : Carries(comp, WithStatus(m, Top.id, v), device)
  BY <1>1, <1>2, <1>3, ResumedFacts, CarriesStatus, CarriesOn
<1>5. n \in [Ids -> Component]
  BY <1>1, <1>2, ResumedFacts, StatusType, StatusValues
<1>6. CASE frames' = Below /\ UNCHANGED ids
           /\ \E v : comp' = WithStatus(m, Top.id, v)
  BY <1>1, <1>4, <1>6, EndGoes
<1>7. CASE Top.wait = "ok" /\ InstallComplete(ids, n, Below, Top)
  <2>1. Delivers(Top)
    BY <1>7 DEF SisInstalled, Resumed, Delivers, Holds
  <2>2. OnDevice(comp, device, Top.id)
    BY <1>1, <2>1, ResumedFacts DEF Fits
  <2>3. Carries(comp, n, device)
    BY <1>4
  <2> HIDE DEF n
  <2> QED
    BY <1>1, <1>5, <1>7, <2>2, <2>3, CompleteGoes
<1> QED
  BY <1>6, <1>7 DEF SisInstalled, m

LEMMA JavaCancelledGoes ==
  ASSUME DInv, JavaCancelled
  PROVE  Goes
<1> DEFINE m == [comp EXCEPT ![Top.id].compId = NoApp]
<1>1. frames # << >> /\ frames' = Below /\ UNCHANGED <<ids, kept>>
      /\ comp' = WithStatus(m, Top.id, EInstalledFailedWithData)
  BY DEF JavaCancelled, Resumed
<1>2. m \in [Ids -> Component] /\ Carries(comp, m, device)
  BY <1>1, ResumedFacts DEF Component, Carries
<1> HIDE DEF m
<1>3. Carries(comp, comp', device)
  BY <1>1, <1>2, ResumedFacts, CarriesStatus, CarriesOn
<1> QED
  BY <1>1, <1>3, EndGoes

\* A Java application is none of those that OnDevice is about.
LEMMA JavaGoes ==
  ASSUME DInv, JavaInstalled
  PROVE  Goes
<1> DEFINE k(uid) == [comp EXCEPT ![Top.id] =
                        [@ EXCEPT !.compId = GivenId(Top.id), !.uid = uid]]
           m(uid) == WithStatus(k(uid), Top.id, EIdle)
           I == ids \ DuplicateMidlets
<1>1. frames # << >> /\ UNCHANGED kept /\ comp[Top.id].app \in JavaApps /\ IInv
  BY DEF JavaInstalled, Resumed, DInv
<1>2. OnDevice(comp, device, Top.id)
  BY <1>1, AppsAssumption DEF OnDevice
<1>3. ASSUME NEW uid \in Apps \cup {NoApp}
      PROVE  m(uid) \in [Ids -> Component] /\ Carries(comp, m(uid), device)
  <2>1. [comp[Top.id] EXCEPT !.compId = GivenId(Top.id), !.uid = uid]
          \in Component
    BY <1>1, GivenType, ResumedFacts, ZenonT(60) DEF Component
  <2>2. k(uid) \in [Ids -> Component]
    BY <1>1, <2>1, ResumedFacts
  <2>3. Carries(comp, k(uid), device)
    BY <1>1, ResumedFacts DEF Carries, Component
  <2> HIDE DEF k
  <2> QED
    BY <1>1, <2>2, <2>3, ResumedFacts, StatusType, StatusValues, CarriesStatus,
       CarriesOn
<1>4. CASE /\ ids' = I /\ Restarted
           /\ comp' = [comp EXCEPT ![Top.id].compId = GivenId(Top.id)]
  <2>1. Carries(comp, comp', device')
    BY <1>1, <1>4, ResumedFacts DEF Carries, Component
  <2>2. StackFits(comp', device', nextId, frames')
    BY <1>4 DEF Restarted, StackFits
  <2> QED
    BY <1>1, <1>4, <2>1, <2>2 DEF Goes, Reaches, kept
<1> HIDE DEF m
<1>5. CASE \E uid \in Apps \cup {NoApp} : InstallComplete(I, m(uid), Below, Top)
  <2>1. PICK uid \in Apps \cup {NoApp} : InstallComplete(I, m(uid), Below, Top)
    BY <1>5
  <2>2. I \in SUBSET ids
    OBVIOUS
  <2> HIDE DEF I
  <2> QED
    BY <1>1, <1>2, <1>3, <2>1, <2>2, CompleteGoes
<1>6. CASE /\ \E uid \in Apps \cup {NoApp} : comp' = m(uid)
           /\ frames' = Below /\ ids' = I
  BY <1>1, <1>3, <1>6, EndGoes
<1> QED
  BY <1>4, <1>5, <1>6 DEF JavaInstalled, m

LEMMA NotedGoes ==
  ASSUME DInv, InstallNoted \/ UpdateNoted
  PROVE  Goes
<1>1. frames # << >> /\ UNCHANGED kept /\ Top.wait \in Results
      /\ Top.at = "note" /\ Top.op # "remove"
  BY DEF InstallNoted, UpdateNoted, Resumed
<1>2. OnDevice(comp, device', Top.id) /\ StackFits(comp, device', nextId, Below)
  BY <1>1, TopHolds, ResumedFacts DEF Fits, Delivers, kept
<1>3. CASE InstallNoted
  BY <1>1, <1>2, <1>3, ResumedFacts, FinishInstallReaches
     DEF InstallNoted, Goes, kept
<1>4. CASE UpdateNoted
  BY <1>1, <1>2, <1>4, ResumedFacts, FinishUpdateReaches
     DEF UpdateNoted, Goes, kept
<1> QED
  BY <1>3, <1>4

LEMMA UninstalledGoes ==
  ASSUME DInv, Uninstalled
  PROVE  Goes
<1> DEFINE g == [Top EXCEPT !.at = "note", !.wait = "pending"]
<1>1. frames # << >> /\ UNCHANGED <<comp, kept>> /\ Top.op = "remove"
      /\ ids' \subseteq ids
  BY DEF Uninstalled, Resumed
<1>2. g \in Frame /\ Fits(comp, device, nextId, g)
  BY <1>1, ResumedFacts DEF Frame, Waits, Fits, Delivers, Holds
<1> HIDE DEF g
<1>3. CASE frames' = Below
  BY <1>1, <1>3, EndGoes, CarriesItself
<1>4. CASE frames' = Append(Below, g)
  BY <1>1, <1>2, <1>4, ResumedFacts, ReachesPush DEF Goes, kept
<1> QED
  BY <1>3, <1>4 DEF Uninstalled, g

LEMMA EndedGoes ==
  ASSUME DInv, RemoveNoted \/ Dangling
  PROVE  Goes
<1>1. frames # << >> /\ frames' = Below /\ UNCHANGED <<comp, kept>>
      /\ ids' \subseteq ids
  BY DEF RemoveNoted, Dangling, Resumed
<1> QED
  BY <1>1, EndGoes, CarriesItself

LEMMA ResumeGoes ==
  ASSUME DInv, Resume
  PROVE  Goes
  BY ConfirmedGoes, DeclinedGoes, SisGoes, JavaCancelledGoes, JavaGoes,
     NotedGoes, UninstalledGoes, EndedGoes
     DEF Resume

LEMMA RestartGoes ==
  ASSUME DInv, Restart
  PROVE  Goes
  BY CarriesItself DEF Restart, Restarted, Goes, Reaches, StackFits

\* A new component takes a number that no handler has.
LEMMA CreateKeeps ==
  ASSUME DInv, NEW state \in {"Delivered", "Download"}, NEW app \in Apps,
         Create(state, app)
  PROVE  /\ \A i \in ids' : i < nextId'
         /\ StackFits(comp', device', nextId', frames')
         /\ \A i \in ids : comp'[i] = comp[i]
<1>1. nextId \in Nat /\ nextId' = nextId + 1 /\ ids' = ids \cup {nextId}
      /\ UNCHANGED <<device, frames>>
  BY BoundsAssumption DEF Create, DInv, IInv, TypeOK
<1>2. \A i \in Ids : i # nextId => comp'[i] = comp[i]
  BY DInvFacts DEF Create
<1>3. \A i \in ids : i \in Ids /\ i < nextId
  BY DInvFacts
<1>4. ASSUME NEW j \in DOMAIN frames
      PROVE  Fits(comp', device', nextId', frames[j])
  <2>1. frames[j].id \in Ids /\ Fits(comp, device, nextId, frames[j])
    BY DInvFacts DEF Frame, StackFits
  <2>2. frames[j].id < nextId /\ frames[j].id \in Nat
    BY <2>1 DEF Fits, Ids
  <2>3. comp'[frames[j].id] = comp[frames[j].id]
    BY <1>1, <1>2, <2>1, <2>2
  <2> QED
    BY <1>1, <2>1, <2>2, <2>3 DEF Fits, OnDevice
<1>5. \A i \in ids : i \in Nat /\ i # nextId
  BY <1>1, <1>3 DEF Ids
<1> QED
  BY <1>1, <1>2, <1>3, <1>4, <1>5 DEF StackFits

-----------------------------------------------------------------------------
(* The theorem                                                             *)

Activates(i) ==
  /\ comp[i].app \in SisApps /\ comp[i].state # "Active"
  /\ comp'[i].state = "Active"

LEMMA StepDInv ==
  ASSUME DInv, [Next]_vars
  PROVE  DInv' /\ \A i \in ids : Activates(i) => comp[i].app \in device'
<1>1. IInv'
  BY StepIInv DEF DInv
<1>2. CASE \E state \in {"Delivered", "Download"}, app \in Apps :
             Create(state, app)
  BY <1>1, <1>2, CreateKeeps DEF DInv, Activates
<1>3. CASE Goes
  BY <1>1, <1>3, DInvFacts DEF DInv, Goes, Reaches, Carries, OnDevice, Activates
<1>4. CASE UNCHANGED vars
  BY <1>1, <1>4 DEF vars, DInv, StackFits, Activates
<1>5. Next => Goes \/ \E state \in {"Delivered", "Download"}, app \in Apps :
                        Create(state, app)
  BY DownloadGoes, RequestGoes, CheckStatusGoes, AnswerGoes, MissGoes,
     ResumeGoes, RestartGoes
     DEF Next
<1> QED
  BY <1>2, <1>3, <1>4, <1>5

LEMMA InitDInv == Init => DInv
  BY InitIInv DEF Init, DInv, StackFits

\* A SIS component turns active only while its application is on the device:
\* no removal slips in between the answer of the installer and InstalledL,
\* however the handlers nest.
THEOREM ActivatedIsInstalledAlways == Spec => ActivatedIsInstalled
<1> DEFINE A == \A i \in ids :
       comp[i].app \in SisApps /\ comp[i].state # "Active"
       /\ comp'[i].state = "Active" => comp[i].app \in device'
<1>1. DInv /\ [Next]_vars => DInv'
  BY StepDInv
<1>2. DInv /\ [Next]_vars => [A]_vars
  BY StepDInv DEF Activates
<1> QED
  BY <1>1, <1>2, InitDInv, PTL DEF Spec, ActivatedIsInstalled
=============================================================================
