---------------------------- MODULE CampaignProofs ----------------------------
(***************************************************************************)
(* Proofs about Campaign, for any children, campaigns and removals.        *)
(*                                                                         *)
(* What holds of the directory depends on how far the parent is; what a    *)
(* child has seen of it stays true because nobody removes anything while a *)
(* child is there, provided that none was started among old files.         *)
(***************************************************************************)
EXTENDS Campaign, SequenceTheorems, TLAPS

-----------------------------------------------------------------------------
(* The inductive invariant *)

(* How far clearing, preparing and the snapshot have got.  An old entry has  *)
(* no chance to pass for a new one: in "clear" it is still to be removed.    *)
Stages ==
  /\ \A e \in Entry : disk[e] <= campaign
  /\ ~ParentGone => campaign # 0
  /\ parent = "clear" =>
       /\ made = 0
       /\ \A e \in todo : Exists(e) /\ disk[e] < campaign
       /\ \A e \in Present \ {"redqueen"} : e \in todo
  /\ parent = "prepare" =>
       /\ \A e \in ToSet(Prepared) : disk[e] \in {0, campaign}
       /\ \A i \in 1 .. made : disk[Prepared[i]] = campaign
       /\ \A e \in ToSet(Snapshot) : disk[e] = 0
  /\ parent = "boot" =>
       /\ made <= Len(Snapshot) /\ (reuse => made = 0)
       /\ \A e \in ToSet(Prepared) : disk[e] = campaign
       /\ \A i \in 1 .. Len(Snapshot) :
            disk[Snapshot[i]] = IF i <= made THEN campaign ELSE 0

(* A removal has the directory to itself, and finds every folder in one      *)
(* that was prepared to the end, until it begins to remove.                  *)
Removals ==
  /\ user # "idle" =>
       /\ ParentGone
       /\ \A c \in Child : ~Started(c)
       /\ result = "none"
  /\ user = "check" => ~deleted
  /\ user = "rest" \/ (user = "remove" /\ done > 0) => ~whole
  /\ parent \in {"clear", "prepare"} => ~whole
  /\ whole => \A f \in Folder : Exists(f)

(* A child that was not started among old files has seen what is there, and  *)
(* all that is there is of its own campaign.                                 *)
Sightings ==
  \A c \in Child :
    /\ child[c] = "idle" => seen[c] = 0
    /\ Started(c) =>
         /\ \A e \in Present : disk[e] = campaign
         /\ \A i \in 1 .. seen[c] : Exists(WaitFor[i])
         /\ Exists("state") => Complete
    /\ child[c] \in {"load", "running"} => Complete

IInv == TypeOK /\ Stages /\ Removals

-----------------------------------------------------------------------------
(* The names *)

LEMMA FolderNames ==
  /\ Len(Folders) = 3 /\ DOMAIN Folders = 1 .. 3
  /\ Folders[1] = "corpus" /\ Folders[2] = "seeds" /\ Folders[3] = "snapshot"
  /\ Folder = {"corpus", "seeds", "snapshot"}
BY DEF Folders, Folder, ToSet

LEMMA PreparedNames ==
  /\ Len(Prepared) = 8 /\ DOMAIN Prepared = 1 .. 8
  /\ Prepared[1] = "corpus" /\ Prepared[2] = "seeds" /\ Prepared[3] = "snapshot"
  /\ Prepared[4] = "filter" /\ Prepared[5] = "lock" /\ Prepared[6] = "dump"
  /\ Prepared[7] = "addr" /\ Prepared[8] = "program"
  /\ ToSet(Prepared) =
       {"corpus", "seeds", "snapshot", "filter", "lock", "dump", "addr", "program"}
<1> DEFINE Files == <<"filter", "lock", "dump", "addr", "program">>
           All == {"corpus", "seeds", "snapshot", "filter", "lock", "dump", "addr", "program"}
<1>1. Folders \in Seq(All) /\ Len(Folders) = 3
  BY DEF Folders
<1>2. Files \in Seq(All) /\ Len(Files) = 5
  OBVIOUS
<1>3. Prepared = Folders \o Files
  BY DEF Prepared
<1> HIDE DEF Files, All
<1>4. /\ Prepared \in Seq(All) /\ Len(Prepared) = 8
      /\ \A i \in 1 .. 8 : Prepared[i] = IF i <= 3 THEN Folders[i] ELSE Files[i - 3]
  <2>1. /\ Folders \o Files \in Seq(All)
        /\ Len(Folders \o Files) = Len(Folders) + Len(Files)
        /\ \A i \in 1 .. Len(Folders) + Len(Files) :
             (Folders \o Files)[i] = IF i <= Len(Folders) THEN Folders[i] ELSE Files[i - Len(Folders)]
    BY <1>1, <1>2, ConcatProperties, Zenon
  <2> QED BY <2>1, <1>1, <1>2, <1>3
<1>5. /\ Prepared[1] = "corpus" /\ Prepared[2] = "seeds" /\ Prepared[3] = "snapshot"
      /\ Prepared[4] = "filter" /\ Prepared[5] = "lock" /\ Prepared[6] = "dump"
      /\ Prepared[7] = "addr" /\ Prepared[8] = "program"
  BY <1>4 DEF Folders, Files
<1>6. DOMAIN Prepared = 1 .. 8
  BY <1>4
<1> QED BY <1>4, <1>5, <1>6 DEF ToSet

LEMMA SnapshotNames ==
  /\ Len(Snapshot) = 2 /\ Snapshot[1] = "mem" /\ Snapshot[2] = "state"
  /\ ToSet(Snapshot) = {"mem", "state"}
BY DEF Snapshot, ToSet

LEMMA WaitForNames ==
  /\ Len(WaitFor) = 4 /\ WaitFor[1] = "lock" /\ WaitFor[2] = "addr"
  /\ WaitFor[3] = "addr" /\ WaitFor[4] = "state"
BY DEF WaitFor

LEMMA Names ==
  Entry = {"corpus", "seeds", "snapshot", "filter", "lock", "dump", "addr", "program",
           "mem", "state", "redqueen"}
BY PreparedNames, SnapshotNames DEF Entry

-----------------------------------------------------------------------------
(* What the steps leave of the directory *)

LEMMA RedqueenIsApart ==
  ASSUME TypeOK
  PROVE  /\ WithRedqueen \in [Entry -> 0 .. MaxCampaign]
         /\ \A e \in Entry \ {"redqueen"} : WithRedqueen[e] = disk[e]
         /\ WithRedqueen["redqueen"] \in {disk["redqueen"], campaign}
         /\ disk["redqueen"] # 0 => WithRedqueen["redqueen"] = disk["redqueen"]
BY Names DEF TypeOK, WithRedqueen, Exists

LEMMA WithoutRemoves ==
  ASSUME TypeOK, NEW f \in Folder
  PROVE  /\ Without(f) \in [Entry -> 0 .. MaxCampaign]
         /\ \A e \in Entry : Without(f)[e] \in {0, disk[e]}
         /\ Without(f)[f] = 0
         /\ Without(f)["snapshot"] = 0 => \A e \in ToSet(Snapshot) : Without(f)[e] = 0
<1>1. f \in Entry /\ ToSet(Snapshot) \subseteq Entry /\ "snapshot" \in Entry
  BY FolderNames, SnapshotNames, Names
<1>2. \A e \in Entry :
        Without(f)[e] = IF e = f \/ (f = "snapshot" /\ e \in ToSet(Snapshot)) THEN 0 ELSE disk[e]
  BY DEF Without
<1>3. Without(f) \in [Entry -> 0 .. MaxCampaign]
  BY CampaignAssumption DEF TypeOK, Without, CampaignAssumption
<1>4. Without(f)["snapshot"] = 0 => \A e \in ToSet(Snapshot) : Without(f)[e] = 0
  BY <1>1, <1>2 DEF TypeOK
<1> QED BY <1>1, <1>2, <1>3, <1>4

-----------------------------------------------------------------------------
(* The types *)

LEMMA TypesKept ==
  ASSUME TypeOK, Stages, Next
  PROVE  TypeOK'
<1> USE CampaignAssumption DEF CampaignAssumption, parents, children, users
<1>1. ASSUME ParentStart PROVE TypeOK'
  <2>1. campaign' \in 0 .. MaxCampaign
    BY <1>1 DEF TypeOK, ParentStart, MayBegin
  <2>2. reuse' \in BOOLEAN /\ todo' \subseteq Entry
    BY <1>1, Zenon DEF ParentStart, Present
  <2>3. made' \in 0 .. Len(Prepared)
    BY <1>1, PreparedNames DEF ParentStart
  <2> QED BY <1>1, <2>1, <2>2, <2>3 DEF TypeOK, ParentStart
<1>2. ASSUME ParentUnlink PROVE TypeOK'
  <2>1. PICK e \in todo :
          /\ e = "snapshot" => todo \cap ToSet(Snapshot) = {}
          /\ todo' = todo \ {e}
          /\ disk' = [disk EXCEPT ![e] = 0]
    BY <1>2 DEF ParentUnlink
  <2>2. disk' \in [Entry -> 0 .. MaxCampaign]
    BY <2>1 DEF TypeOK
  <2>3. ASSUME NEW f \in ToSet(Snapshot), disk'[f] # 0 PROVE disk'["snapshot"] # 0
    <3>1. f \in Entry /\ disk[f] # 0 /\ f # "redqueen"
      BY <2>1, <2>3, Names, SnapshotNames DEF TypeOK
    <3>2. f \in todo
      BY <3>1, <1>2 DEF Stages, Present, Exists, ParentUnlink
    <3>3. e # "snapshot" /\ disk["snapshot"] # 0
      BY <2>1, <3>1, <3>2, <2>3 DEF TypeOK
    <3> QED BY <2>1, <3>3, Names DEF TypeOK
  <2> QED BY <1>2, <2>1, <2>2, <2>3 DEF TypeOK, ParentUnlink
<1>3. ASSUME ParentCleared PROVE TypeOK'
  BY <1>3 DEF TypeOK, ParentCleared
<1>4. ASSUME ParentPrepare PROVE TypeOK'
  <2>1. made' \in 0 .. Len(Prepared)
    BY <1>4, PreparedNames DEF TypeOK, ParentPrepare
  <2>2. Prepared[made + 1] \in Entry
    <3>1. made + 1 \in 1 .. 8
      BY <1>4, PreparedNames DEF TypeOK, ParentPrepare
    <3> QED BY <3>1, PreparedNames, Names
  <2>3. /\ disk' \in [Entry -> 0 .. MaxCampaign]
        /\ \A e \in Entry : disk'[e] \in {disk[e], campaign}
        /\ \A e \in ToSet(Snapshot) : disk'[e] = 0
    <3>1. Prepared[made + 1] \notin ToSet(Snapshot)
      BY <1>4, PreparedNames, SnapshotNames DEF TypeOK, ParentPrepare
    <3>2. \A e \in ToSet(Snapshot) : e \in Entry /\ disk[e] = 0
      BY <1>4, Names, SnapshotNames DEF Stages, ParentPrepare
    <3> QED BY <1>4, <2>2, <3>1, <3>2 DEF TypeOK, ParentPrepare, Exists
  <2> QED BY <1>4, <2>1, <2>3 DEF TypeOK, ParentPrepare
<1>5. ASSUME ParentBoot PROVE TypeOK'
  <2>1. disk' = WithRedqueen
    BY <1>5 DEF ParentBoot
  <2>2. /\ disk' \in [Entry -> 0 .. MaxCampaign]
        /\ \A e \in ToSet(Snapshot) \cup {"snapshot"} : disk'[e] = disk[e]
    BY <2>1, RedqueenIsApart, Names, SnapshotNames
  <2> QED BY <1>5, <2>2, PreparedNames DEF TypeOK, ParentBoot
<1>6. ASSUME QemuSerialize PROVE TypeOK'
  <2>1. Snapshot[made + 1] \in {"mem", "state"} /\ made' \in 0 .. Len(Prepared)
    BY <1>6, SnapshotNames, PreparedNames DEF TypeOK, QemuSerialize
  <2>2. disk["snapshot"] = campaign /\ campaign # 0
    BY <1>6, PreparedNames DEF Stages, QemuSerialize, ParentGone
  <2>3. disk' \in [Entry -> 0 .. MaxCampaign] /\ disk'["snapshot"] # 0
    BY <1>6, <2>1, <2>2, Names DEF TypeOK, QemuSerialize
  <2> QED BY <1>6, <2>1, <2>3 DEF TypeOK, QemuSerialize
<1>7. ASSUME ParentEnd PROVE TypeOK'
  BY <1>7, PreparedNames DEF TypeOK, ParentEnd
<1>8. ASSUME NEW c \in Child, ChildStart(c) PROVE TypeOK'
  BY <1>8 DEF TypeOK, ChildStart
<1>9. ASSUME NEW c \in Child, ChildPoll(c) PROVE TypeOK'
  BY <1>9, WaitForNames DEF TypeOK, ChildPoll
<1>10. ASSUME NEW c \in Child, ChildFound(c) PROVE TypeOK'
  BY <1>10 DEF TypeOK, ChildFound
<1>11. ASSUME NEW c \in Child, ChildLoad(c) PROVE TypeOK'
  <2>1. disk' = WithRedqueen
    BY <1>11 DEF ChildLoad
  <2>2. /\ disk' \in [Entry -> 0 .. MaxCampaign]
        /\ \A e \in ToSet(Snapshot) \cup {"snapshot"} : disk'[e] = disk[e]
    BY <2>1, RedqueenIsApart, Names, SnapshotNames
  <2> QED BY <1>11, <2>2 DEF TypeOK, ChildLoad
<1>12. ASSUME NEW c \in Child, ChildEnd(c) PROVE TypeOK'
  BY <1>12 DEF TypeOK, ChildEnd
<1>13. ASSUME RemoveStart PROVE TypeOK'
  <2>1. removals' \in 0 .. MaxRemove /\ done' \in 0 .. Len(Folders)
    BY <1>13, FolderNames DEF TypeOK, RemoveStart
  <2> QED BY <1>13, <2>1 DEF TypeOK, RemoveStart
<1>14. ASSUME RemoveCheck PROVE TypeOK'
  BY <1>14, FolderNames DEF TypeOK, RemoveCheck, Refuse
<1>15. ASSUME RemoveFolder PROVE TypeOK'
  <2>1. CASE done < Len(Folders)
    <3>1. Folders[done + 1] \in Folder
      BY <2>1, FolderNames DEF TypeOK
    <3>2. disk' = Without(Folders[done + 1])
      BY <1>15, <2>1 DEF RemoveFolder
    <3>3. /\ disk' \in [Entry -> 0 .. MaxCampaign]
          /\ \A e \in ToSet(Snapshot) : disk'[e] # 0 => disk'["snapshot"] # 0
      BY <3>1, <3>2, WithoutRemoves
    <3>4. done' \in 0 .. Len(Folders)
      BY <1>15, <2>1, FolderNames DEF TypeOK, RemoveFolder
    <3> QED BY <1>15, <2>1, <3>3, <3>4 DEF TypeOK, RemoveFolder
  <2>2. CASE ~(done < Len(Folders))
    BY <1>15, <2>2 DEF TypeOK, RemoveFolder
  <2> QED BY <2>1, <2>2
<1>16. ASSUME RemoveRest PROVE TypeOK'
  <2>1. disk' = [e \in Entry |-> 0]
    BY <1>16 DEF RemoveRest
  <2>2. \A e \in ToSet(Snapshot) : disk'[e] = 0
    BY <2>1, Names, SnapshotNames
  <2> QED BY <1>16, <2>1, <2>2 DEF TypeOK, RemoveRest
<1>17. ASSUME RemoveCrash PROVE TypeOK'
  BY <1>17 DEF TypeOK, RemoveCrash
<1> QED BY <1>1, <1>2, <1>3, <1>4, <1>5, <1>6, <1>7, <1>8, <1>9, <1>10, <1>11, <1>12,
           <1>13, <1>14, <1>15, <1>16, <1>17 DEF Next, Preparing, Waiting, Removing

-----------------------------------------------------------------------------
(* The stages of the parent *)

LEMMA StagesKept ==
  ASSUME TypeOK, Stages, Removals, Next
  PROVE  Stages'
<1> USE DEF parents, children, users
<1>1. ASSUME ParentStart PROVE Stages'
  <2>1. /\ campaign' = campaign + 1 /\ parent' = "clear" /\ todo' = Present /\ made' = 0
        /\ disk' = disk
    BY <1>1 DEF ParentStart
  <2>2. campaign \in Nat /\ \A e \in Entry : disk[e] \in Nat /\ disk[e] <= campaign
    BY DEF TypeOK, Stages
  <2>3. Present' = Present
    BY <2>1 DEF Present, Exists
  <2>4. \A e \in todo' : Exists(e)' /\ disk'[e] < campaign'
    BY <2>1, <2>2 DEF Present, Exists
  <2> QED BY <2>1, <2>2, <2>3, <2>4 DEF Stages, ParentGone
<1>2. ASSUME ParentUnlink PROVE Stages'
  <2>1. PICK e \in todo : todo' = todo \ {e} /\ disk' = [disk EXCEPT ![e] = 0]
    BY <1>2 DEF ParentUnlink
  <2>2. /\ UNCHANGED <<campaign, parent, made>> /\ parent = "clear"
        /\ \A f \in Entry : disk'[f] = IF f = e THEN 0 ELSE disk[f]
    BY <1>2, <2>1 DEF ParentUnlink, TypeOK
  <2>3. Present' = Present \ {e}
    BY <2>2 DEF Present, Exists
  <2>4. \A f \in Entry : disk'[f] <= campaign'
    BY <2>2 DEF Stages, TypeOK
  <2>5. \A f \in todo' : Exists(f)' /\ disk'[f] < campaign'
    BY <2>1, <2>2 DEF Stages, Exists, TypeOK
  <2>6. \A f \in Present' \ {"redqueen"} : f \in todo'
    BY <2>1, <2>2, <2>3 DEF Stages
  <2> QED BY <2>2, <2>4, <2>5, <2>6 DEF Stages, ParentGone
<1>3. ASSUME ParentCleared PROVE Stages'
  <2>1. /\ UNCHANGED <<disk, campaign, made>> /\ parent = "clear" /\ todo = {}
        /\ parent' = "prepare"
    BY <1>3 DEF ParentCleared
  <2>2. \A e \in ToSet(Prepared) \cup ToSet(Snapshot) : e \in Entry \ {"redqueen"}
    BY Names, PreparedNames, SnapshotNames
  <2>3. \A e \in ToSet(Prepared) \cup ToSet(Snapshot) : disk[e] = 0
    BY <2>1, <2>2 DEF Stages, Present, Exists
  <2> QED BY <2>1, <2>3 DEF Stages, ParentGone
<1>4. ASSUME ParentPrepare PROVE Stages'
  <2> DEFINE entry == Prepared[made + 1]
  <2>1. /\ UNCHANGED <<campaign, parent>> /\ parent = "prepare" /\ made' = made + 1
        /\ disk' = IF Exists(entry) THEN disk ELSE [disk EXCEPT ![entry] = campaign]
    BY <1>4 DEF ParentPrepare
  <2>2. made + 1 \in 1 .. Len(Prepared)
    BY <1>4 DEF ParentPrepare, TypeOK
  <2>3. /\ entry \in ToSet(Prepared) /\ entry \in Entry
        /\ entry \notin ToSet(Snapshot) /\ ToSet(Snapshot) \subseteq Entry
        /\ ToSet(Prepared) \subseteq Entry
        /\ \A i \in 1 .. Len(Prepared) : Prepared[i] \in ToSet(Prepared)
    BY <2>2, PreparedNames, SnapshotNames, Names
  <2> HIDE DEF entry
  <2>4. /\ disk'[entry] = campaign
        /\ \A e \in Entry \ {entry} : disk'[e] = disk[e]
    BY <2>1, <2>3 DEF Stages, Exists, TypeOK
  <2>5. \A e \in Entry : disk'[e] <= campaign'
    BY <2>1, <2>3, <2>4 DEF Stages, TypeOK
  <2>6. \A e \in ToSet(Prepared) : disk'[e] \in {0, campaign'}
    BY <2>1, <2>3, <2>4 DEF Stages
  <2>7. \A e \in ToSet(Snapshot) : disk'[e] = 0
    BY <2>1, <2>3, <2>4 DEF Stages
  <2>8. ASSUME NEW i \in 1 .. made' PROVE disk'[Prepared[i]] = campaign'
    <3>1. CASE i = made + 1
      BY <3>1, <2>1, <2>4 DEF entry
    <3>2. CASE i # made + 1
      <4>1. i \in 1 .. made /\ i \in 1 .. Len(Prepared)
        BY <3>2, <2>1, <2>2 DEF TypeOK
      <4>2. disk[Prepared[i]] = campaign /\ Prepared[i] \in Entry
        BY <4>1, <2>1, <2>3 DEF Stages
      <4> QED BY <4>2, <2>1, <2>4
    <3> QED BY <3>1, <3>2
  <2> QED BY <2>1, <2>5, <2>6, <2>7, <2>8 DEF Stages, ParentGone
<1>5. ASSUME ParentBoot PROVE Stages'
  <2>1. /\ campaign' = campaign /\ parent = "prepare" /\ parent' = "boot"
        /\ made = Len(Prepared) /\ made' = 0 /\ disk' = WithRedqueen
    BY <1>5 DEF ParentBoot
  <2>2. /\ \A e \in Entry \ {"redqueen"} : disk'[e] = disk[e]
        /\ disk'["redqueen"] \in {disk["redqueen"], campaign}
    BY <2>1, RedqueenIsApart
  <2>3. /\ \A e \in ToSet(Prepared) : disk'[e] = disk[e]
        /\ \A e \in ToSet(Snapshot) : disk'[e] = disk[e]
    BY <2>2, Names, PreparedNames, SnapshotNames
  <2>4. \A e \in Entry : disk'[e] <= campaign'
    BY <2>1, <2>2, Names DEF Stages, TypeOK
  <2>5. \A e \in ToSet(Prepared) : disk'[e] = campaign'
    <3>1. \A i \in 1 .. 8 : disk[Prepared[i]] = campaign
      BY <2>1, PreparedNames DEF Stages
    <3>2. \A e \in ToSet(Prepared) : \E i \in 1 .. 8 : e = Prepared[i]
      BY PreparedNames
    <3> QED BY <3>1, <3>2, <2>1, <2>3
  <2>6. \A i \in 1 .. Len(Snapshot) : disk'[Snapshot[i]] = 0
    BY <2>1, <2>3, SnapshotNames DEF Stages
  <2> QED BY <2>1, <2>4, <2>5, <2>6, SnapshotNames DEF Stages, ParentGone
<1>6. ASSUME QemuSerialize PROVE Stages'
  <2> DEFINE entry == Snapshot[made + 1]
  <2>1. /\ UNCHANGED <<campaign, parent, reuse>> /\ parent = "boot" /\ ~reuse
        /\ made < Len(Snapshot) /\ made' = made + 1 /\ disk' = [disk EXCEPT ![entry] = campaign]
    BY <1>6 DEF QemuSerialize
  <2>2. made \in {0, 1} /\ entry = IF made = 0 THEN "mem" ELSE "state"
    BY <2>1, SnapshotNames DEF TypeOK
  <2> HIDE DEF entry
  <2>3. /\ disk'[entry] = campaign
        /\ \A e \in Entry \ {entry} : disk'[e] = disk[e]
    BY <2>1, <2>2, Names DEF TypeOK
  <2>4. \A e \in Entry : disk'[e] <= campaign'
    BY <2>1, <2>3 DEF Stages, TypeOK
  <2>5. \A e \in ToSet(Prepared) : disk'[e] = campaign'
    BY <2>1, <2>2, <2>3, PreparedNames, Names DEF Stages
  <2>6. \A i \in 1 .. Len(Snapshot) : disk'[Snapshot[i]] = IF i <= made' THEN campaign' ELSE 0
    BY <2>1, <2>2, <2>3, SnapshotNames, Names DEF Stages
  <2> QED BY <2>1, <2>2, <2>4, <2>5, <2>6, SnapshotNames DEF Stages, ParentGone
<1>7. ASSUME ParentEnd PROVE Stages'
  BY <1>7 DEF Stages, ParentEnd, ParentGone
<1>8. ASSUME NEW c \in Child, ChildStart(c) \/ ChildPoll(c) \/ ChildFound(c) \/ ChildEnd(c)
      PROVE  Stages'
  BY <1>8 DEF Stages, ChildStart, ChildPoll, ChildFound, ChildEnd, ParentGone, Present, Exists
<1>9. ASSUME NEW c \in Child, ChildLoad(c) PROVE Stages'
  <2>1. UNCHANGED <<campaign, parent, reuse, todo, made>> /\ disk' = WithRedqueen
    BY <1>9 DEF ChildLoad
  <2>2. /\ \A e \in Entry \ {"redqueen"} : disk'[e] = disk[e]
        /\ disk'["redqueen"] \in {disk["redqueen"], campaign}
        /\ disk["redqueen"] # 0 => disk'["redqueen"] = disk["redqueen"]
    BY <2>1, RedqueenIsApart
  <2>3. /\ \A e \in ToSet(Prepared) : disk'[e] = disk[e]
        /\ \A e \in ToSet(Snapshot) : disk'[e] = disk[e]
        /\ \A i \in 1 .. Len(Prepared) : Prepared[i] \in ToSet(Prepared)
        /\ \A i \in 1 .. Len(Snapshot) : Snapshot[i] \in ToSet(Snapshot)
    BY <2>2, Names, PreparedNames, SnapshotNames
  <2>4. \A e \in Entry : disk'[e] <= campaign'
    BY <2>1, <2>2, Names DEF Stages, TypeOK
  <2>5. ASSUME parent = "clear"
        PROVE  /\ \A e \in todo : Exists(e)' /\ disk'[e] < campaign'
               /\ \A e \in Present' \ {"redqueen"} : e \in todo
    BY <2>1, <2>2, <2>5 DEF Stages, TypeOK, Present, Exists
  <2>6. ASSUME parent = "prepare", NEW i \in 1 .. made PROVE disk'[Prepared[i]] = campaign'
    BY <2>1, <2>3, <2>6 DEF Stages, TypeOK
  <2> QED BY <2>1, <2>3, <2>4, <2>5, <2>6 DEF Stages, ParentGone
<1>10. ASSUME RemoveStart \/ RemoveCheck \/ RemoveCrash PROVE Stages'
  BY <1>10 DEF Stages, RemoveStart, RemoveCheck, Refuse, RemoveCrash, ParentGone, Present, Exists
<1>11. ASSUME RemoveFolder \/ RemoveRest PROVE Stages'
  <2>1. UNCHANGED <<campaign, parent>> /\ ParentGone
    BY <1>11 DEF RemoveFolder, RemoveRest, Removals
  <2>2. \A e \in Entry : disk'[e] \in {0, disk[e]}
    <3>1. CASE UNCHANGED disk \/ disk' = [e \in Entry |-> 0]
      BY <3>1
    <3>2. CASE done < Len(Folders) /\ disk' = Without(Folders[done + 1])
      <4>1. Folders[done + 1] \in Folder
        BY <3>2, FolderNames DEF TypeOK
      <4> QED BY <4>1, <3>2, WithoutRemoves
    <3> QED BY <3>1, <3>2, <1>11 DEF RemoveFolder, RemoveRest
  <2>3. \A e \in Entry : disk'[e] <= campaign'
    BY <2>1, <2>2 DEF Stages, TypeOK
  <2> QED BY <2>1, <2>3 DEF Stages, ParentGone
<1> QED BY <1>1, <1>2, <1>3, <1>4, <1>5, <1>6, <1>7, <1>8, <1>9, <1>10, <1>11
        DEF Next, Preparing, Waiting, Removing

-----------------------------------------------------------------------------
(* The removal of the directory *)

LEMMA RemovalsKept ==
  ASSUME TypeOK, Stages, Removals, Next
  PROVE  Removals'
<1> USE DEF parents, children, users
<1>1. ASSUME ParentStart \/ ParentEnd PROVE Removals'
  <2>1. UNCHANGED <<disk, user>> /\ user = "idle"
    BY <1>1 DEF Removals, ParentStart, MayBegin, ParentEnd
  <2>2. ~whole' \/ (parent' = "ended" /\ whole' = whole)
    BY <1>1 DEF ParentStart, ParentEnd
  <2> QED BY <2>1, <2>2 DEF Removals, Exists
<1>2. ASSUME ParentUnlink \/ ParentCleared \/ ParentPrepare PROVE Removals'
  BY <1>2 DEF Removals, ParentUnlink, ParentCleared, ParentPrepare, ParentGone, Started
<1>3. ASSUME ParentBoot PROVE Removals'
  <2>1. /\ parent = "prepare" /\ made = Len(Prepared) /\ disk' = WithRedqueen /\ parent' = "boot"
        /\ UNCHANGED <<user, done, result, deleted>>
    BY <1>3 DEF ParentBoot
  <2>2. user = "idle"
    BY <2>1 DEF Removals, ParentGone
  <2>3. ASSUME NEW f \in Folder PROVE Exists(f)'
    <3>1. PICK i \in 1 .. 8 : f = Prepared[i]
      BY FolderNames, PreparedNames
    <3>2. disk[f] = campaign /\ campaign # 0
      BY <2>1, <3>1, PreparedNames DEF Stages, ParentGone
    <3>3. f \in Entry \ {"redqueen"}
      BY FolderNames, Names
    <3> QED BY <2>1, <3>2, <3>3, RedqueenIsApart DEF Exists
  <2> QED BY <2>1, <2>2, <2>3 DEF Removals
<1>4. ASSUME QemuSerialize PROVE Removals'
  <2>1. \A e \in Entry : disk[e] # 0 => disk'[e] # 0
    BY <1>4 DEF QemuSerialize, Stages, ParentGone, TypeOK
  <2>2. Folder \subseteq Entry
    BY FolderNames, Names
  <2> QED BY <1>4, <2>1, <2>2 DEF Removals, QemuSerialize, ParentGone, Started, Exists
<1>5. ASSUME NEW c \in Child, ChildStart(c) \/ ChildPoll(c) \/ ChildFound(c) \/ ChildEnd(c)
      PROVE  Removals'
  <2>1. UNCHANGED <<disk, parent, user, done, result, deleted, whole>>
    BY <1>5 DEF ChildStart, ChildPoll, ChildFound, ChildEnd
  <2>2. user = "idle" \/ \A d \in Child : ~Started(d)'
    <3> SUFFICES ASSUME user # "idle" PROVE \A d \in Child : ~Started(d)'
      OBVIOUS
    <3>1. \A d \in Child : ~Started(d)
      BY DEF Removals
    <3> QED BY <3>1, <1>5 DEF ChildStart, ChildPoll, ChildFound, ChildEnd, Started
  <2> QED BY <2>1, <2>2 DEF Removals, ParentGone, Exists
<1>6. ASSUME NEW c \in Child, ChildLoad(c) PROVE Removals'
  <2>1. /\ UNCHANGED <<parent, user, done, result, deleted, whole>> /\ disk' = WithRedqueen
        /\ Started(c)
    BY <1>6 DEF ChildLoad, Started
  <2>2. user = "idle"
    BY <2>1 DEF Removals
  <2>3. \A f \in Folder : disk'[f] = disk[f]
    BY <2>1, RedqueenIsApart, FolderNames, Names
  <2> QED BY <2>1, <2>2, <2>3 DEF Removals, ParentGone, Exists
<1>7. ASSUME RemoveStart \/ RemoveCheck \/ RemoveCrash PROVE Removals'
  <2>1. UNCHANGED <<disk, parent, child, whole>> /\ ParentGone /\ \A c \in Child : ~Started(c)
    BY <1>7 DEF Removals, RemoveStart, RemoveCheck, Refuse, RemoveCrash
  <2>2. /\ user' # "idle" => result' = "none"
        /\ user' = "check" => ~deleted'
        /\ user' # "rest"
        /\ user' = "remove" => done' = 0
    BY <1>7 DEF Removals, RemoveStart, RemoveCheck, Refuse, RemoveCrash
  <2> QED BY <2>1, <2>2 DEF Removals, ParentGone, Started, Exists
<1>8. ASSUME RemoveFolder PROVE Removals'
  BY <1>8, FolderNames DEF Removals, RemoveFolder, ParentGone, Started, Exists, TypeOK
<1>9. ASSUME RemoveRest PROVE Removals'
  BY <1>9 DEF Removals, RemoveRest, ParentGone
<1> QED BY <1>1, <1>2, <1>3, <1>4, <1>5, <1>6, <1>7, <1>8, <1>9
        DEF Next, Preparing, Waiting, Removing

-----------------------------------------------------------------------------
(* The sightings of the children *)

LEMMA NeededNames ==
  /\ Needed = {"lock", "dump", "addr", "mem", "state"}
  /\ Needed \subseteq ToSet(Prepared) \cup ToSet(Snapshot)
  /\ Needed \subseteq Entry \ {"redqueen"}
BY PreparedNames, SnapshotNames, Names DEF Needed

(* Before the state is written a snapshot is not complete, after it, it is.  *)
StateIsLast ==
  /\ parent \in {"clear", "prepare"} => ~Complete
  /\ parent = "boot" => (Complete <=> disk["state"] # 0)

LEMMA WhenComplete == TypeOK /\ Stages => StateIsLast
<1> SUFFICES ASSUME TypeOK, Stages PROVE StateIsLast
  OBVIOUS
<1>1. ASSUME parent = "clear" PROVE ~Complete
  BY <1>1, NeededNames DEF Stages, Complete, Present, Exists, TypeOK
<1>2. ASSUME parent = "prepare" PROVE ~Complete
  BY <1>2, NeededNames, SnapshotNames DEF Stages, Complete, Exists
<1>3. ASSUME parent = "boot" PROVE Complete <=> disk["state"] # 0
  <2>1. campaign # 0 /\ made \in 0 .. 2 /\ \A e \in ToSet(Prepared) : disk[e] = campaign
    BY <1>3, SnapshotNames DEF Stages, ParentGone, TypeOK
  <2>2. /\ disk["mem"] = IF 1 <= made THEN campaign ELSE 0
        /\ disk["state"] = IF 2 <= made THEN campaign ELSE 0
    BY <1>3, SnapshotNames DEF Stages
  <2>3. ToSet(Prepared) \cup ToSet(Snapshot) = ToSet(Prepared) \cup {"mem", "state"}
    BY SnapshotNames
  <2> QED BY <2>1, <2>2, <2>3, NeededNames DEF Complete, Exists
<1> QED BY <1>1, <1>2, <1>3 DEF StateIsLast

LEMMA SightingsKept ==
  ASSUME ~EarlyChild, TypeOK, Stages, Removals, Sightings, Next
  PROVE  Sightings'
<1> USE DEF parents, children, users
<1> DEFINE Sighting(c) ==
      /\ child[c] = "idle" => seen[c] = 0
      /\ Started(c) =>
           /\ \A e \in Present : disk[e] = campaign
           /\ \A i \in 1 .. seen[c] : Exists(WaitFor[i])
           /\ Exists("state") => Complete
      /\ child[c] \in {"load", "running"} => Complete
<1> SUFFICES ASSUME NEW c \in Child PROVE Sighting(c)'
  BY DEF Sightings
<1>0. Sighting(c)
  BY DEF Sightings
<1>1. ASSUME ParentStart PROVE Sighting(c)'
  <2>1. UNCHANGED <<disk, child, seen>>
    BY <1>1 DEF ParentStart
  <2>2. Started(c) => child[c] = "wait" /\ Present = {}
    BY <1>1 DEF ParentStart, MayBegin
  <2>3. Present' = Present /\ Started(c)' = Started(c)
    BY <2>1 DEF Present, Exists, Started
  <2>4. Started(c) => ~Exists("state")
    BY <2>2, Names DEF Present
  <2> QED BY <2>1, <2>2, <2>3, <2>4, <1>0 DEF Exists, Started
<1>2. ASSUME ParentUnlink PROVE Sighting(c)'
  <2>1. UNCHANGED <<child, seen>> /\ parent = "clear" /\ todo # {}
    BY <1>2 DEF ParentUnlink
  <2>2. ~Started(c)
    BY <2>1, <1>0 DEF Stages, Present, TypeOK
  <2> QED BY <2>1, <2>2, <1>0 DEF Started
<1>3. ASSUME ParentCleared \/ ParentEnd PROVE Sighting(c)'
  <2>1. UNCHANGED <<disk, campaign, child, seen>>
    BY <1>3 DEF ParentCleared, ParentEnd
  <2> QED BY <2>1, <1>0 DEF Started, Present, Exists, Complete
<1>4. ASSUME ParentPrepare PROVE Sighting(c)'
  <2> DEFINE entry == Prepared[made + 1]
  <2>1. /\ UNCHANGED <<campaign, child, seen, parent>> /\ parent = "prepare"
        /\ disk' = IF Exists(entry) THEN disk ELSE [disk EXCEPT ![entry] = campaign]
    BY <1>4 DEF ParentPrepare
  <2>2. made + 1 \in 1 .. Len(Prepared)
    BY <1>4 DEF ParentPrepare, TypeOK
  <2>3. entry \in Entry /\ entry \notin {"mem", "state"}
    BY <2>2, PreparedNames, Names
  <2>4. campaign # 0 /\ disk["state"] = 0
    BY <2>1, SnapshotNames DEF Stages, ParentGone
  <2> HIDE DEF entry
  <2>5. /\ \A e \in Entry : disk[e] # 0 => disk'[e] = disk[e]
        /\ \A e \in Entry : disk'[e] \in {disk[e], campaign}
        /\ disk'["state"] = 0
    BY <2>1, <2>3, <2>4, Names DEF Exists, TypeOK
  <2>6. ~Complete
    BY <2>1, WhenComplete DEF StateIsLast
  <2>7. Started(c)' => \A i \in 1 .. seen[c] : Exists(WaitFor[i])'
    BY <2>1, <2>5, <1>0, WaitForNames, Names DEF Started, Exists, TypeOK
  <2>8. Started(c)' => \A e \in Present' : disk'[e] = campaign'
    BY <2>1, <2>5, <1>0 DEF Started, Present, Exists
  <2> QED BY <2>1, <2>5, <2>6, <2>7, <2>8, <1>0 DEF Started, Exists
<1>5. ASSUME ParentBoot \/ \E d \in Child : ChildLoad(d) PROVE Sighting(c)'
  <2>1. UNCHANGED <<campaign, seen>> /\ disk' = WithRedqueen
    BY <1>5 DEF ParentBoot, ChildLoad
  <2>2. /\ \A e \in Entry \ {"redqueen"} : disk'[e] = disk[e]
        /\ disk'["redqueen"] \in {disk["redqueen"], campaign}
    BY <2>1, RedqueenIsApart
  <2>3. Complete' = Complete /\ Exists("state")' = Exists("state")
    BY <2>1, <2>2, NeededNames, Names DEF Complete, Exists
  <2>4. \A i \in 1 .. Len(WaitFor) : Exists(WaitFor[i])' = Exists(WaitFor[i])
    BY <2>2, WaitForNames, Names DEF Exists
  <2>5. (\A e \in Present : disk[e] = campaign) => (\A e \in Present' : disk'[e] = campaign')
    BY <2>1, <2>2 DEF Present, Exists
  <2>6. /\ Started(c)' = Started(c)
        /\ child'[c] = "idle" => child[c] = "idle"
        /\ child'[c] \in {"load", "running"} <=> child[c] \in {"load", "running"}
    BY <1>5 DEF ParentBoot, ChildLoad, Started, TypeOK
  <2>7. seen[c] \in 0 .. Len(WaitFor) /\ Len(WaitFor) = 4
    BY WaitForNames DEF TypeOK
  <2> QED BY <2>1, <2>3, <2>4, <2>5, <2>6, <2>7, <1>0
<1>6. ASSUME QemuSerialize PROVE Sighting(c)'
  <2>1. /\ UNCHANGED <<campaign, child, seen, parent>> /\ parent = "boot"
        /\ made < Len(Snapshot) /\ disk' = [disk EXCEPT ![Snapshot[made + 1]] = campaign]
    BY <1>6 DEF QemuSerialize
  <2>2. /\ \A e \in Entry : disk'[e] \in {disk[e], campaign}
        /\ \A e \in Entry : disk[e] # 0 => disk'[e] # 0
    BY <2>1 DEF Stages, ParentGone, TypeOK
  <2>3. disk["state"] = 0
    BY <2>1, SnapshotNames DEF Stages, TypeOK
  <2>4. ~Complete
    BY <2>1, <2>3, WhenComplete DEF StateIsLast
  <2>5. Exists("state")' => Complete'
    <3> SUFFICES ASSUME disk'["state"] # 0 PROVE Complete'
      BY DEF Exists
    <3> DEFINE entry == Snapshot[made + 1]
    <3>0. made \in {0, 1} /\ entry = (IF made = 0 THEN "mem" ELSE "state")
          /\ disk' = [disk EXCEPT ![entry] = campaign]
      BY <2>1, SnapshotNames DEF TypeOK
    <3> HIDE DEF entry
    <3>1. made = 1 /\ disk' = [disk EXCEPT !["state"] = campaign]
      <4>1. CASE made = 0
        BY <4>1, <3>0, <2>3, Names DEF TypeOK
      <4>2. CASE made = 1
        BY <4>2, <3>0
      <4> QED BY <3>0, <4>1, <4>2
    <3>2. disk["mem"] = campaign /\ campaign # 0 /\ \A e \in ToSet(Prepared) : disk[e] = campaign
      BY <2>1, <3>1, SnapshotNames DEF Stages, ParentGone
    <3>3. \A e \in Needed : disk'[e] = campaign
      BY <3>1, <3>2, NeededNames, SnapshotNames, Names DEF TypeOK
    <3> QED BY <3>2, <3>3, <2>1 DEF Complete, Exists
  <2>6. Started(c)' => \A i \in 1 .. seen[c] : Exists(WaitFor[i])'
    <3> SUFFICES ASSUME Started(c), NEW i \in 1 .. seen[c] PROVE disk'[WaitFor[i]] # 0
      BY <2>1 DEF Started, Exists
    <3>1. WaitFor[i] \in Entry
      <4>1. seen[c] \in 0 .. 4 /\ i \in 1 .. 4
        BY WaitForNames DEF TypeOK
      <4> QED BY <4>1, WaitForNames, Names
    <3>2. disk[WaitFor[i]] # 0
      BY <1>0 DEF Exists
    <3> QED BY <3>1, <3>2, <2>2
  <2>7. Started(c)' => \A e \in Present' : disk'[e] = campaign'
    BY <2>1, <2>2, <1>0 DEF Started, Present, Exists
  <2> QED BY <2>1, <2>4, <2>5, <2>6, <2>7, <1>0 DEF Started
<1>7. ASSUME NEW d \in Child, ChildStart(d) PROVE Sighting(c)'
  <2>1. /\ UNCHANGED <<disk, campaign, seen>> /\ Fresh
        /\ child[d] = "idle" /\ child' = [child EXCEPT ![d] = "wait"]
    BY <1>7 DEF ChildStart
  <2>2. CASE c # d
    BY <2>1, <2>2, <1>0 DEF Started, Present, Exists, Complete, TypeOK
  <2>3. CASE c = d
    <3>1. \A e \in Present : disk[e] = campaign
      BY <2>1 DEF Fresh
    <3>2. seen[c] = 0 /\ child'[c] = "wait"
      BY <2>1, <2>3, <1>0 DEF TypeOK
    <3>3. Exists("state") => Complete
      <4> SUFFICES ASSUME disk["state"] # 0 PROVE Complete
        BY DEF Exists
      <4>1. "state" \in Present
        BY Names DEF Present, Exists
      <4>2. ~ParentGone
        BY <2>1, <4>1 DEF Fresh
      <4>3. parent # "clear"
        BY <3>1, <4>1 DEF Stages, TypeOK
      <4>4. parent # "prepare"
        BY SnapshotNames DEF Stages
      <4> QED BY <4>2, <4>3, <4>4, WhenComplete DEF StateIsLast, ParentGone, TypeOK
    <3> QED BY <2>1, <3>1, <3>2, <3>3 DEF Started, Present, Exists, Complete
  <2> QED BY <2>2, <2>3
<1>8. ASSUME NEW d \in Child, ChildPoll(d) PROVE Sighting(c)'
  <2>1. /\ UNCHANGED <<disk, campaign, child>>
        /\ child[d] = "wait" /\ Exists(WaitFor[seen[d] + 1])
        /\ seen' = [seen EXCEPT ![d] = seen[d] + 1]
    BY <1>8 DEF ChildPoll
  <2>2. CASE c # d
    BY <2>1, <2>2, <1>0 DEF Started, Present, Exists, Complete, TypeOK
  <2>3. CASE c = d
    <3>1. \A i \in 1 .. seen[c] + 1 : Exists(WaitFor[i])
      BY <2>1, <2>3, <1>0 DEF Started, TypeOK
    <3> QED BY <2>1, <2>3, <3>1, <1>0 DEF Started, Present, Exists, Complete, TypeOK
  <2> QED BY <2>2, <2>3
<1>9. ASSUME NEW d \in Child, ChildFound(d) PROVE Sighting(c)'
  <2>1. /\ UNCHANGED <<disk, campaign, seen>> /\ child[d] = "wait"
        /\ seen[d] = Len(WaitFor) /\ child' = [child EXCEPT ![d] = "load"]
    BY <1>9 DEF ChildFound
  <2>2. CASE c # d
    BY <2>1, <2>2, <1>0 DEF Started, Present, Exists, Complete, TypeOK
  <2>3. CASE c = d
    <3>1. Exists("state")
      BY <2>1, <2>3, <1>0, WaitForNames DEF Started
    <3>2. Complete
      BY <2>1, <2>3, <3>1, <1>0 DEF Started
    <3> QED BY <2>1, <2>3, <3>2, <1>0 DEF Started, Present, Exists, Complete, TypeOK
  <2> QED BY <2>2, <2>3
<1>10. ASSUME NEW d \in Child, ChildEnd(d) PROVE Sighting(c)'
  BY <1>10, <1>0 DEF ChildEnd, Started, Present, Exists, Complete, TypeOK
<1>11. ASSUME RemoveStart \/ RemoveCheck \/ RemoveCrash PROVE Sighting(c)'
  <2>1. UNCHANGED <<disk, campaign, child, seen>>
    BY <1>11 DEF RemoveStart, RemoveCheck, Refuse, RemoveCrash
  <2> QED BY <2>1, <1>0 DEF Started, Present, Exists, Complete
<1>12. ASSUME RemoveFolder \/ RemoveRest PROVE Sighting(c)'
  <2>1. UNCHANGED <<child, seen>> /\ ~Started(c)
    BY <1>12 DEF RemoveFolder, RemoveRest, Removals
  <2> QED BY <2>1, <1>0 DEF Started
<1> HIDE DEF Sighting
<1> QED BY <1>1, <1>2, <1>3, <1>4, <1>5, <1>6, <1>7, <1>8, <1>9, <1>10, <1>11, <1>12
        DEF Next, Preparing, Waiting, Removing

-----------------------------------------------------------------------------
(* The theorems *)

LEMMA InitEstablishes == Init => IInv /\ Sightings
<1> SUFFICES ASSUME Init PROVE IInv /\ Sightings
  OBVIOUS
<1>1. TypeOK
  <2>1. ToSet(Snapshot) \subseteq Entry
    BY Names, SnapshotNames
  <2>2. 0 \in 0 .. MaxCampaign /\ 0 \in 0 .. MaxRemove
    BY CampaignAssumption DEF CampaignAssumption
  <2>3. 0 \in 0 .. Len(Prepared) /\ 0 \in 0 .. Len(WaitFor) /\ 0 \in 0 .. Len(Folders)
    BY PreparedNames, WaitForNames, FolderNames
  <2> QED BY <2>1, <2>2, <2>3 DEF Init, TypeOK
<1>2. Stages
  BY DEF Init, Stages, ParentGone
<1>3. Removals
  BY DEF Init, Removals
<1>4. Sightings
  BY DEF Init, Sightings, Started
<1> QED BY <1>1, <1>2, <1>3, <1>4 DEF IInv

LEMMA StutterKeeps ==
  ASSUME UNCHANGED vars
  PROVE  (IInv => IInv') /\ (Sightings => Sightings')
BY DEF vars, parents, children, users, IInv, TypeOK, Stages, Removals, Sightings,
       ParentGone, Present, Exists, Started, Complete

(* The inductive invariant, whoever starts a child when. *)
THEOREM Invariant == Spec => []IInv
<1>1. Init => IInv
  BY InitEstablishes
<1>2. IInv /\ [Next]_vars => IInv'
  BY TypesKept, StagesKept, RemovalsKept, StutterKeeps DEF IInv
<1> QED BY <1>1, <1>2, PTL DEF Spec

(* The types, and that a file of the snapshot is never there without the     *)
(* folder it is in.                                                          *)
THEOREM TypeCorrect == Spec => []TypeOK
<1>1. IInv => TypeOK
  BY DEF IInv
<1> QED BY <1>1, Invariant, PTL

(* Clearing and preparing leave no file of an earlier campaign to the QEMU   *)
(* of a parent, not even one that was killed in the middle of either.        *)
THEOREM ParentBootsOnOwnFiles == Spec => []BootsOnOwnFiles
<1>1. IInv => BootsOnOwnFiles
  BY DEF IInv, Stages, BootsOnOwnFiles
<1> QED BY <1>1, Invariant, PTL

(* remove_work_dir() refuses only what was never complete or what somebody   *)
(* had begun to remove.                                                      *)
THEOREM RefusalIsExplained == Spec => RefusalExplained
<1> DEFINE Explained == user = "check" /\ result' = "Err" => ~whole /\ ~deleted
<1>1. IInv /\ [Next]_vars => Explained
  <2> SUFFICES ASSUME IInv, [Next]_vars, user = "check", result' = "Err"
               PROVE  ~whole /\ ~deleted
    OBVIOUS
  <2>1. result = "none" /\ ~deleted /\ (whole => \A f \in Folder : Exists(f))
    BY DEF IInv, Removals
  <2>2. RemoveCheck
    BY <2>1 DEF Next, vars, users, Preparing, ParentStart, ParentUnlink, ParentCleared,
                ParentPrepare, ParentBoot, QemuSerialize, ParentEnd, ChildStart, Waiting,
                ChildPoll, ChildFound, ChildLoad, ChildEnd, RemoveStart, Removing,
                RemoveFolder, RemoveRest, RemoveCrash
  <2>3. done < Len(Folders) /\ ~Exists(Folders[done + 1])
    BY <2>1, <2>2 DEF RemoveCheck
  <2>4. Folders[done + 1] \in Folder
    BY <2>3, FolderNames DEF IInv, TypeOK
  <2> QED BY <2>1, <2>3, <2>4
<1>2. IInv /\ [Next]_vars => [Explained]_vars
  BY <1>1
<1> QED BY <1>2, Invariant, PTL DEF Spec, RefusalExplained

(* A parent that is to reuse the snapshot in its own work directory never    *)
(* finds it: what the run campaign_reuse meets once is so every time.        *)
THEOREM OwnSnapshotIsNeverReused ==
  Spec => [](parent = "boot" /\ reuse => disk["mem"] = 0 /\ disk["state"] = 0)
<1>1. IInv => (parent = "boot" /\ reuse => disk["mem"] = 0 /\ disk["state"] = 0)
  BY SnapshotNames DEF IInv, Stages
<1> QED BY <1>1, Invariant, PTL

(* If no child is started among old files, what it has seen stays there.     *)
THEOREM SightingsLast == ASSUME ~EarlyChild PROVE Spec => []Sightings
<1>1. Init => Sightings
  BY InitEstablishes
<1>2. IInv /\ Sightings /\ [Next]_vars => Sightings'
  BY SightingsKept, StutterKeeps DEF IInv
<1> QED BY <1>1, <1>2, Invariant, PTL DEF Spec

(* A child that stops waiting finds a complete snapshot of its own campaign, *)
(* however clearing, preparing, serializing and crashes interleave with its  *)
(* polling.                                                                  *)
THEOREM SnapshotIsComplete == ASSUME ~EarlyChild PROVE Spec => []SnapshotComplete
<1>1. Sightings => SnapshotComplete
  BY DEF Sightings, SnapshotComplete, Complete
<1> QED BY <1>1, SightingsLast, PTL

-----------------------------------------------------------------------------
(* Campaign implements SnapshotStore *)

LEMMA InitStore == Init => Store!Init
<1>1. Init => ~Complete
  BY NeededNames DEF Init, Complete, Exists
<1> QED BY <1>1 DEF Init, Store!Init, Stored, ParentGone, Attached, Spent

LEMMA StepStore ==
  ASSUME ~EarlyChild, IInv, Sightings, [Next]_vars
  PROVE  [Store!Next]_Store!vars
<1> USE DEF parents, children, users
<1> DEFINE Same == UNCHANGED <<campaign, Stored, Attached, Spent>>
<1>0. Same => UNCHANGED Store!vars
  BY DEF Store!vars
<1>1. StateIsLast /\ TypeOK /\ Stages
  BY WhenComplete DEF IInv
<1>2. StateIsLast'
  <2>1. TypeOK' /\ Stages'
    BY TypesKept, StagesKept, StutterKeeps DEF IInv
  <2>2. TypeOK' /\ Stages' => StateIsLast'
    BY WhenComplete, PTL
  <2> QED BY <2>1, <2>2
<1>3. Attached # {} => Complete
  BY DEF Sightings, Attached
<1>4. ASSUME UNCHANGED vars PROVE Same
  BY <1>4 DEF vars, Stored, Attached, Spent, Complete, Exists, ParentGone
<1>5. ASSUME ParentStart PROVE Store!Begin
  <2>1. campaign' = campaign + 1 /\ child' = child /\ ParentGone /\ parent' = "clear"
    BY <1>5 DEF ParentStart, MayBegin
  <2>2. Attached = {}
    BY <1>5 DEF ParentStart, MayBegin, Attached, Started
  <2>3. Stored' = "none"
    BY <2>1, <1>2 DEF StateIsLast, Stored, ParentGone
  <2> QED BY <2>1, <2>2, <2>3 DEF Store!Begin, Attached, Spent
<1>6. ASSUME ParentUnlink \/ ParentCleared \/ ParentPrepare \/ ParentBoot PROVE Same
  <2>1. /\ UNCHANGED <<campaign, child>> /\ ~ParentGone /\ ~ParentGone'
        /\ parent \in {"clear", "prepare"}
    BY <1>6 DEF ParentUnlink, ParentCleared, ParentPrepare, ParentBoot, ParentGone
  <2>2. ~Complete
    BY <2>1, <1>1 DEF StateIsLast
  <2>3. ~Complete'
    <3>1. CASE ParentBoot
      <4>1. disk["state"] = 0
        BY <2>1, <3>1, <1>1, SnapshotNames DEF Stages, ParentBoot
      <4>2. disk'["state"] = 0 /\ parent' = "boot"
        BY <3>1, <4>1, <1>1, RedqueenIsApart, Names DEF ParentBoot
      <4> QED BY <4>2, <1>2 DEF StateIsLast
    <3>2. CASE ~ParentBoot
      BY <3>2, <1>2, <1>6 DEF StateIsLast, ParentUnlink, ParentCleared, ParentPrepare
    <3> QED BY <3>1, <3>2
  <2> QED BY <2>1, <2>2, <2>3 DEF Stored, Attached, Spent
<1>7. ASSUME QemuSerialize PROVE Same \/ Store!Publish
  <2>1. UNCHANGED <<campaign, child, parent>> /\ ~ParentGone /\ ~ParentGone' /\ parent = "boot"
    BY <1>7 DEF QemuSerialize, ParentGone
  <2>2. ~Complete
    <3>1. disk["state"] = 0
      BY <1>1, <1>7, SnapshotNames DEF Stages, QemuSerialize, TypeOK
    <3> QED BY <3>1, <2>1, <1>1 DEF StateIsLast
  <2>3. CASE Complete'
    BY <2>1, <2>2, <2>3 DEF Store!Publish, Stored, Attached, Spent
  <2>4. CASE ~Complete'
    BY <2>1, <2>2, <2>4 DEF Stored, Attached, Spent
  <2> QED BY <2>3, <2>4
<1>8. ASSUME ParentEnd PROVE Same \/ Store!Withdraw
  <2>1. UNCHANGED <<disk, campaign, child>> /\ ParentGone'
    BY <1>8 DEF ParentEnd, ParentGone
  <2>2. Complete' = Complete /\ Attached' = Attached /\ Spent' = Spent
    BY <2>1 DEF Complete, Exists, Attached, Spent
  <2>3. CASE Complete
    BY <2>1, <2>2, <2>3 DEF Stored
  <2>4. CASE ~Complete
    BY <2>1, <2>2, <2>4, <1>3 DEF Stored, Store!Withdraw
  <2> QED BY <2>3, <2>4
<1>9. ASSUME NEW c \in Child, ChildStart(c) \/ ChildPoll(c) PROVE Same
  BY <1>9 DEF ChildStart, ChildPoll, Stored, Complete, Exists, ParentGone, Attached, Spent,
              IInv, TypeOK
<1>10. ASSUME NEW c \in Child, ChildFound(c) PROVE Store!Attach(c)
  <2>1. /\ UNCHANGED <<disk, campaign, parent>> /\ child[c] = "wait"
        /\ child' = [child EXCEPT ![c] = "load"]
    BY <1>10 DEF ChildFound
  <2>2. Complete
    <3>1. seen[c] = 4 /\ WaitFor[4] = "state" /\ Started(c)
      BY <1>10, WaitForNames DEF ChildFound, Started
    <3> QED BY <3>1 DEF Sightings
  <2>3. Stored = "stored" /\ Stored' = Stored
    BY <2>1, <2>2 DEF Stored, Complete, Exists, ParentGone
  <2>4. c \notin Attached \cup Spent /\ Attached' = Attached \cup {c} /\ Spent' = Spent
    BY <2>1, <1>1 DEF Attached, Spent, TypeOK
  <2> QED BY <2>1, <2>3, <2>4 DEF Store!Attach
<1>11. ASSUME NEW c \in Child, ChildLoad(c) PROVE Same
  <2>1. /\ UNCHANGED <<campaign, parent>> /\ disk' = WithRedqueen
        /\ child[c] = "load" /\ child' = [child EXCEPT ![c] = "running"]
    BY <1>11 DEF ChildLoad
  <2>2. Complete' = Complete
    BY <2>1, <1>1, RedqueenIsApart, NeededNames DEF Complete, Exists
  <2>3. Attached' = Attached /\ Spent' = Spent
    BY <2>1, <1>1 DEF Attached, Spent, TypeOK
  <2> QED BY <2>1, <2>2, <2>3 DEF Stored, ParentGone
<1>12. ASSUME NEW c \in Child, ChildEnd(c) PROVE Store!Detach(c)
  <2>1. /\ UNCHANGED <<disk, campaign, parent>> /\ Started(c)
        /\ child' = [child EXCEPT ![c] = "ended"]
    BY <1>12 DEF ChildEnd
  <2>2. Stored' = Stored
    BY <2>1 DEF Stored, Complete, Exists, ParentGone
  <2>3. c \notin Spent /\ Attached' = Attached \ {c} /\ Spent' = Spent \cup {c}
    BY <2>1, <1>1 DEF Attached, Spent, Started, TypeOK
  <2> QED BY <2>1, <2>2, <2>3 DEF Store!Detach
<1>13. ASSUME RemoveStart \/ RemoveCheck \/ RemoveCrash PROVE Same
  BY <1>13 DEF RemoveStart, RemoveCheck, Refuse, RemoveCrash, Stored, Complete, Exists,
               ParentGone, Attached, Spent
<1>14. ASSUME RemoveFolder \/ RemoveRest PROVE Same \/ Store!Withdraw
  <2>1. UNCHANGED <<campaign, parent, child>> /\ ParentGone /\ ParentGone' /\ user # "idle"
    BY <1>14 DEF RemoveFolder, RemoveRest, IInv, Removals, ParentGone
  <2>2. Attached = {} /\ Attached' = Attached /\ Spent' = Spent
    BY <2>1 DEF IInv, Removals, Attached, Spent, Started
  <2>3. CASE Complete'
    <3>1. \A e \in Entry : disk'[e] \in {0, disk[e]}
      <4>1. CASE UNCHANGED disk \/ disk' = [e \in Entry |-> 0]
        BY <4>1
      <4>2. CASE done < Len(Folders) /\ disk' = Without(Folders[done + 1])
        <5>1. Folders[done + 1] \in Folder
          BY <4>2, <1>1, FolderNames DEF TypeOK
        <5> QED BY <5>1, <4>2, <1>1, WithoutRemoves
      <4> QED BY <4>1, <4>2, <1>14 DEF RemoveFolder, RemoveRest
    <3>2. Complete
      BY <2>1, <2>3, <3>1, NeededNames DEF Complete, Exists
    <3> QED BY <2>1, <2>2, <2>3, <3>2 DEF Stored
  <2>4. CASE ~Complete'
    BY <2>1, <2>2, <2>4 DEF Stored, Store!Withdraw
  <2> QED BY <2>3, <2>4
<1> HIDE DEF Same
<1> QED BY <1>0, <1>4, <1>5, <1>6, <1>7, <1>8, <1>9, <1>10, <1>11, <1>12, <1>13, <1>14
        DEF Next, Preparing, Waiting, Removing, Store!Next

(* What the files, their order and the polling amount to: a snapshot that is *)
(* published once and whole, and stays as long as a child is attached.       *)
THEOREM CampaignImplementsStore == ASSUME ~EarlyChild PROVE Spec => StoreSpec
<1>1. IInv /\ Sightings /\ [Next]_vars => [Store!Next]_Store!vars
  BY StepStore
<1> QED BY <1>1, InitStore, Invariant, SightingsLast, PTL DEF Spec, StoreSpec, Store!Spec

=============================================================================
