-------------------------- MODULE SnapshotsProofs --------------------------
(***************************************************************************)
(* Theorems about Snapshots: for any number of files and creations, the    *)
(* index names completed snapshots only, and nothing of them is cut but    *)
(* where another creation of the same second is, or was killed.  While no  *)
(* two updates of the index overlap, no snapshot is lost from it, and a    *)
(* question has one answer.                                                *)
(***************************************************************************)
EXTENDS Snapshots, FiniteSetTheorems, WellFoundedInduction, TLAPS

-----------------------------------------------------------------------------
(* The invariant *)

Labels == {Label[c] : c \in Creations}

Entries == [timestamp : Seconds, label : Labels]

\* A creation that fills its directory; one that may leave a file cut.
Copying == {"copying", "filling", "noting"}
Cutting == {"filling", "noting", "dead"}

Makes == [pc : Copying \cup {"waiting", "reading", "opening", "writing", "done", "raised", "dead"},
          next : Nat, stamp : Seconds \cup {None}, from : [Files -> Nat], held : Seq(Entries)]

\* The types of what a creation works on.
StoreTypes ==
  /\ now \in Seconds
  /\ live \in [Files -> Nat]
  /\ dir \in [Seconds -> [Files -> Nat]]
  /\ manifest \subseteq Seconds
  /\ index \in Seq(Entries)
  /\ make \in [Creations -> Makes]

\* A creation has its timestamp once it began, and none before.
Stamped ==
  \A c \in Creations :
    IF At(c, "waiting") THEN make[c].stamp = None /\ make[c].next = 1
                        ELSE make[c].stamp \in Seconds

\* What is copied is not newer than the live file, nor is what was there at the start.
NotAhead ==
  /\ \A t \in Seconds, f \in Files : dir[t][f] <= live[f]
  /\ \A c \in Creations, f \in Files : make[c].from[f] <= live[f]

\* A file of a directory that is as new as a creation's start.
Taken(c, f) == dir[make[c].stamp][f] >= make[c].from[f]

\* A copying creation has taken the files before the next one, and a later one all.
SoFar(c) ==
  /\ make[c].pc \in Copying =>
       /\ make[c].next \in Nat \ {0}
       /\ \A f \in Files : f < make[c].next => Taken(c, f)
  /\ At(c, "filling") => make[c].next \in Files
  /\ At(c, "noting") => make[c].next \notin Files
  /\ make[c].pc \in {"reading", "opening", "writing"} =>
       /\ make[c].stamp \in manifest
       /\ \A f \in Files : Taken(c, f)

CopiedSoFar == \A c \in Creations : SoFar(c)

\* A timestamp with a complete snapshot.
Whole(t) ==
  /\ t \in manifest
  /\ \E c \in Creations : make[c].stamp = t /\ \A f \in Files : dir[t][f] >= make[c].from[f]

\* The index, and every copy of it that is held, names whole snapshots.
NamesWhole ==
  /\ \A i \in DOMAIN index : Whole(index[i].timestamp)
  /\ \A c \in Creations : \A i \in DOMAIN make[c].held : Whole(make[c].held[i].timestamp)

\* What is cut is what a creation writes or was killed at.
CutBy(t, f) ==
  \E d \in Creations : make[d].stamp = t /\ make[d].next = f /\ make[d].pc \in Cutting

CutInv ==
  /\ cut \in [Seconds -> SUBSET Int]
  /\ \A t \in Seconds : \A f \in cut[t] : CutBy(t, f)

SnapInv == StoreTypes /\ Stamped /\ NotAhead /\ CopiedSoFar /\ NamesWhole

\* None is no timestamp.
LEMMA SecondsFacts == None \notin Seconds /\ \A t \in Seconds : t \in Nat
  BY SnapshotAssumption DEF Seconds

\* The initial state satisfies the invariant.
LEMMA InitSnap == Init => SnapInv
<1> SUFFICES ASSUME Init PROVE SnapInv
  OBVIOUS
<1>1. StoreTypes
  <2>1. live \in [Files -> Nat]
    BY DEF Init
  <2>2. now \in Seconds
    BY SnapshotAssumption DEF Init, Seconds
  <2>3. NewMake \in Makes
    BY DEF NewMake, Makes
  <2> QED BY <2>1, <2>2, <2>3 DEF Init, StoreTypes
<1>2. Stamped /\ CopiedSoFar
  BY DEF Init, Stamped, CopiedSoFar, SoFar, Copying, At, NewMake
<1>3. NotAhead
  BY DEF Init, NotAhead, NewMake
<1>4. NamesWhole
  BY DEF Init, NamesWhole, NewMake
<1> QED BY <1>1, <1>2, <1>3, <1>4 DEF SnapInv

-----------------------------------------------------------------------------
(* The steps *)

\* A snapshot stays whole when directories only get newer, manifests stay, and no
\* creation that began changes its timestamp or its start.
LEMMA StaysWhole ==
  ASSUME SnapInv,
         NEW t \in Seconds, Whole(t),
         manifest \subseteq manifest',
         \A u \in Seconds, f \in Files : dir[u][f] <= dir'[u][f],
         dir' \in [Seconds -> [Files -> Nat]],
         \A c \in Creations : make[c].stamp \in Seconds =>
             make'[c].stamp = make[c].stamp /\ make'[c].from = make[c].from
  PROVE  Whole(t)'
<1>1. PICK c \in Creations : make[c].stamp = t /\ \A f \in Files : dir[t][f] >= make[c].from[f]
  BY DEF Whole
<1>2. make'[c].stamp = t /\ make'[c].from = make[c].from
  BY <1>1
<1>3. ASSUME NEW f \in Files PROVE dir'[t][f] >= make[c].from[f]
  <2>1. dir[t][f] \in Nat /\ dir'[t][f] \in Nat /\ make[c].from[f] \in Nat
    BY DEF SnapInv, StoreTypes, Makes
  <2>2. dir[t][f] >= make[c].from[f] /\ dir[t][f] <= dir'[t][f]
    BY <1>1
  <2> QED BY <2>1, <2>2
<1> QED BY <1>2, <1>3 DEF Whole

\* A step that leaves the directories, the manifests, the index and the creations alone.
LEMMA NothingMade ==
  ASSUME SnapInv, UNCHANGED <<dir, manifest, index, make>>,
         now' \in Seconds, live' \in [Files -> Nat], \A f \in Files : live[f] <= live'[f]
  PROVE  SnapInv'
<1>1. StoreTypes' /\ Stamped'
  BY DEF SnapInv, StoreTypes, Stamped, At
<1>2. NotAhead'
  <2>1. ASSUME NEW t \in Seconds, NEW f \in Files PROVE dir[t][f] <= live'[f]
    <3>1. dir[t][f] \in Nat /\ live[f] \in Nat /\ live'[f] \in Nat
      BY DEF SnapInv, StoreTypes
    <3> QED BY <3>1 DEF SnapInv, NotAhead
  <2>2. ASSUME NEW c \in Creations, NEW f \in Files PROVE make[c].from[f] <= live'[f]
    <3>1. make[c].from[f] \in Nat /\ live[f] \in Nat /\ live'[f] \in Nat
      BY DEF SnapInv, StoreTypes, Makes
    <3> QED BY <3>1 DEF SnapInv, NotAhead
  <2> QED BY <2>1, <2>2 DEF NotAhead
<1>3. CopiedSoFar'
  BY DEF SnapInv, CopiedSoFar, SoFar, Copying, At, Taken
<1>4. NamesWhole'
  BY DEF SnapInv, NamesWhole, Whole
<1> QED BY <1>1, <1>2, <1>3, <1>4 DEF SnapInv

\* Every entry's timestamp is a second.
LEMMA EntrySeconds ==
  ASSUME StoreTypes
  PROVE  /\ \A i \in DOMAIN index : index[i].timestamp \in Seconds
         /\ \A c \in Creations : \A i \in DOMAIN make[c].held : make[c].held[i].timestamp \in Seconds
<1>1. ASSUME NEW s \in Seq(Entries), NEW i \in DOMAIN s PROVE s[i].timestamp \in Seconds
  <2>1. s[i] \in Entries
    OBVIOUS
  <2> QED BY <2>1 DEF Entries
<1>2. \A c \in Creations : make[c].held \in Seq(Entries)
  BY DEF StoreTypes, Makes
<1> QED BY <1>1, <1>2 DEF StoreTypes

\* Steps that leave the index and what is held alone, and only add to the directories,
\* keep every named snapshot whole.
LEMMA NamesStayWhole ==
  ASSUME SnapInv,
         index' = index,
         \A c \in Creations : make'[c].held = make[c].held \/ make'[c].held = <<>>
                                \/ make'[c].held = index,
         manifest \subseteq manifest',
         \A u \in Seconds, f \in Files : dir[u][f] <= dir'[u][f],
         dir' \in [Seconds -> [Files -> Nat]],
         \A c \in Creations : make[c].stamp \in Seconds =>
             make'[c].stamp = make[c].stamp /\ make'[c].from = make[c].from
  PROVE  NamesWhole'
<1>1. ASSUME NEW t \in Seconds, Whole(t) PROVE Whole(t)'
  BY <1>1, StaysWhole
<1>2. \A i \in DOMAIN index : Whole(index[i].timestamp)'
  BY <1>1, EntrySeconds DEF SnapInv, NamesWhole
<1>3. ASSUME NEW c \in Creations, NEW i \in DOMAIN make'[c].held
      PROVE  Whole(make[c].held[i].timestamp)'
  <2>1. CASE make'[c].held = make[c].held
    BY <2>1, <1>1, <1>3, EntrySeconds DEF SnapInv, NamesWhole
  <2>2. CASE make'[c].held = <<>>
    BY <2>2, <1>3
  <2>3. CASE make'[c].held = index
    BY <2>3, <1>2, <1>3
  <2> QED BY <1>3, <2>1, <2>2, <2>3
<1>4. \A i \in DOMAIN index' : Whole(index[i].timestamp)'
  BY <1>2
<1> QED BY <1>3, <1>4 DEF NamesWhole

\* Only the control of one creation moves: the parts about the files stay.
LEMMA FilesLeftAlone ==
  ASSUME SnapInv, NEW c \in Creations, UNCHANGED <<now, live, dir>>,
         manifest \subseteq manifest', make' \in [Creations -> Makes],
         \A d \in Creations \ {c} : make'[d] = make[d],
         make'[c].stamp = make[c].stamp, make'[c].from = make[c].from,
         ~At(c, "waiting"), ~At(c, "waiting")', make'[c].pc \notin Copying,
         make'[c].pc \in {"reading", "opening", "writing"} =>
           make[c].stamp \in manifest' /\ \A f \in Files : Taken(c, f)
  PROVE  Stamped' /\ NotAhead' /\ CopiedSoFar'
<1>1. Stamped'
  BY DEF SnapInv, Stamped, At
<1>2. NotAhead'
  BY DEF SnapInv, NotAhead
<1>3. ASSUME NEW d \in Creations
      PROVE  SoFar(d)'
  <2>1. CASE d = c
    BY <2>1 DEF At, Taken, SoFar, Copying
  <2>2. CASE d # c
    <3>1. make'[d] = make[d] /\ dir' = dir
      BY <2>2
    <3> QED BY <3>1 DEF SnapInv, CopiedSoFar, SoFar, Copying, At, Taken
  <2> QED BY <2>1, <2>2
<1>4. CopiedSoFar'
  BY <1>3 DEF CopiedSoFar, SoFar, Copying
<1> QED BY <1>1, <1>2, <1>4

-----------------------------------------------------------------------------
(* The actions *)

\* A creation that begins has no timestamp yet, and starts from the live files.
LEMMA BeginKeeps == ASSUME SnapInv, NEW c \in Creations, Begin(c) PROVE SnapInv'
<1> DEFINE new == [make[c] EXCEPT !.pc = "copying", !.stamp = Stamp(now), !.from = live]
<1>1. make' = [make EXCEPT ![c] = new] /\ make \in [Creations -> Makes]
  BY DEF SnapInv, StoreTypes, Begin
<1>2. new \in Makes
  BY DEF SnapInv, StoreTypes, Makes, Stamp, Copying
<1>3. UNCHANGED <<now, live, dir, manifest, index>>
  BY DEF Begin, store
<1>4. StoreTypes'
  BY <1>1, <1>2, <1>3 DEF SnapInv, StoreTypes
<1>5. /\ new.pc = "copying" /\ new.stamp = now /\ new.from = live
      /\ new.next = make[c].next /\ new.held = make[c].held
  BY <1>1 DEF Makes, Stamp
<1>6. make'[c] = new /\ \A d \in Creations \ {c} : make'[d] = make[d]
  BY <1>1
<1> HIDE DEF new
<1>7. make[c].pc = "waiting" /\ make[c].stamp = None /\ make[c].next = 1
  BY DEF Begin, At, SnapInv, Stamped
<1>8. Stamped'
  BY <1>5, <1>6 DEF SnapInv, StoreTypes, Stamped, At
<1>9. NotAhead'
  <2>1. \A f \in Files : live[f] <= live[f]
    BY DEF SnapInv, StoreTypes
  <2> QED BY <2>1, <1>3, <1>5, <1>6 DEF SnapInv, NotAhead
<1>10. CopiedSoFar'
  <2>1. ASSUME NEW f \in Files PROVE ~(f < 1)
    BY SnapshotAssumption DEF Files
  <2>2. ASSUME NEW d \in Creations, d # c
        PROVE  SoFar(d)'
    <3>1. make'[d] = make[d]
      BY <1>6, <2>2
    <3> QED BY <3>1, <1>3 DEF SnapInv, CopiedSoFar, SoFar, Copying, At, Taken
  <2> QED BY <2>1, <2>2, <1>5, <1>6, <1>7 DEF CopiedSoFar, SoFar, Copying, At
<1>11. NamesWhole'
  <2>1. \A u \in Seconds, f \in Files : dir[u][f] <= dir'[u][f]
    BY <1>3 DEF SnapInv, StoreTypes
  <2>2. \A d \in Creations : make[d].stamp \in Seconds =>
             make'[d].stamp = make[d].stamp /\ make'[d].from = make[d].from
    BY <1>6, <1>7, SecondsFacts
  <2> QED BY <2>1, <2>2, <1>3, <1>5, <1>6, NamesStayWhole DEF SnapInv, StoreTypes
<1> QED BY <1>4, <1>8, <1>9, <1>10, <1>11 DEF SnapInv

\* A file that is copied is as new as the live one, which is as new as any start.
LEMMA CopyFileKeeps == ASSUME SnapInv, NEW c \in Creations, CopyFile(c) PROVE SnapInv'
<1> DEFINE f == make[c].next
           t == make[c].stamp
           copied == live[f]
<1>1. f \in Files /\ t \in Seconds /\ live[f] \in Nat /\ dir[t][f] \in Nat
  BY DEF CopyFile, SnapInv, Stamped, At, StoreTypes, CopiedSoFar, SoFar
<1>2. /\ dir' = [dir EXCEPT ![t][f] = copied]
      /\ make' = [make EXCEPT ![c] = [@ EXCEPT !.pc = "copying", !.next = f + 1]]
      /\ UNCHANGED <<now, live, manifest, index>>
      /\ At(c, "filling")
  BY DEF CopyFile
<1>3. copied \in Nat /\ dir[t][f] <= copied /\ copied <= live[f]
  BY <1>1 DEF SnapInv, NotAhead
<1>4. /\ dir' \in [Seconds -> [Files -> Nat]]
      /\ dir'[t][f] = copied
      /\ \A u \in Seconds, g \in Files : u # t \/ g # f => dir'[u][g] = dir[u][g]
  BY <1>1, <1>2, <1>3 DEF SnapInv, StoreTypes
<1>5. f + 1 \in Nat \ {0}
  BY <1>1, SnapshotAssumption DEF Files
<1>6. /\ make' \in [Creations -> Makes]
      /\ \A d \in Creations : /\ make'[d].stamp = make[d].stamp
                              /\ make'[d].from = make[d].from /\ make'[d].held = make[d].held
      /\ make'[c].next = f + 1 /\ make'[c].pc = "copying"
      /\ \A d \in Creations \ {c} : make'[d] = make[d]
  BY <1>2, <1>5 DEF SnapInv, StoreTypes, Makes, Copying
<1> HIDE DEF copied
<1>7. StoreTypes'
  BY <1>2, <1>4, <1>6 DEF SnapInv, StoreTypes
<1>8. Stamped'
  <2>1. ~At(c, "waiting")
    BY <1>2 DEF At
  <2> QED BY <2>1, <1>6 DEF SnapInv, Stamped, At
<1>9. \A u \in Seconds, g \in Files : dir[u][g] <= dir'[u][g] /\ dir'[u][g] <= live'[g]
  <2>1. \A u \in Seconds, g \in Files : dir[u][g] \in Nat
    BY DEF SnapInv, StoreTypes
  <2> QED BY <2>1, <1>1, <1>2, <1>3, <1>4 DEF SnapInv, NotAhead
<1>10. NotAhead'
  BY <1>2, <1>6, <1>9 DEF SnapInv, NotAhead
<1>11. ASSUME NEW d \in Creations, NEW g \in Files, Taken(d, g), make[d].stamp \in Seconds
       PROVE  Taken(d, g)'
  <2>1. /\ dir[make[d].stamp][g] \in Nat /\ dir'[make[d].stamp][g] \in Nat
        /\ make[d].from[g] \in Nat
    BY <1>4, <1>11 DEF SnapInv, StoreTypes, Makes
  <2>2. dir[make[d].stamp][g] >= make[d].from[g] /\ dir[make[d].stamp][g] <= dir'[make[d].stamp][g]
    BY <1>9, <1>11 DEF Taken
  <2> QED BY <2>1, <2>2, <1>6 DEF Taken
<1>12. dir'[t][f] >= make[c].from[f]
  <2>1. make[c].from[f] \in Nat /\ make[c].from[f] <= live[f]
    BY <1>1 DEF SnapInv, NotAhead, StoreTypes, Makes
  <2>2. copied >= make[c].from[f]
    BY <2>1, <1>1 DEF copied
  <2> QED BY <2>2, <1>4
<1>13. CopiedSoFar'
  <2>1. ASSUME NEW g \in Files, g < f + 1 PROVE Taken(c, g)'
    <3>1. g = f \/ g < f
      BY <2>1, <1>1, SnapshotAssumption DEF Files
    <3>2. CASE g < f
      BY <3>2, <1>1, <1>2, <1>11 DEF SnapInv, CopiedSoFar, SoFar, Copying, At
    <3>3. CASE g = f
      BY <3>3, <1>6, <1>12 DEF Taken
    <3> QED BY <3>1, <3>2, <3>3
  <2>2. ASSUME NEW d \in Creations, d # c
        PROVE  SoFar(d)'
    <3>1. make'[d] = make[d]
      BY <1>6, <2>2
    <3>2. make[d].pc \in Copying \cup {"reading", "opening", "writing"} => make[d].stamp \in Seconds
      BY DEF SnapInv, Stamped, Copying, At
    <3> QED BY <3>1, <3>2, <1>2, <1>11 DEF SnapInv, CopiedSoFar, SoFar, Copying, At
  <2>3. SoFar(c)'
    BY <2>1, <1>5, <1>6 DEF SoFar, At
  <2> QED BY <2>2, <2>3 DEF CopiedSoFar
<1>14. NamesWhole'
  BY <1>2, <1>4, <1>6, <1>9, NamesStayWhole
<1> QED BY <1>7, <1>8, <1>10, <1>13, <1>14 DEF SnapInv

\* A step to the next file, or to the writing of one.
LEMMA CopyingOn ==
  ASSUME SnapInv, NEW c \in Creations, UNCHANGED <<now, live, dir, manifest, index>>,
         At(c, "copying"), NEW pc \in Copying, NEW next \in Nat \ {0},
         make' = [make EXCEPT ![c] = [@ EXCEPT !.pc = pc, !.next = next]],
         \A f \in Files : f < next => Taken(c, f),
         pc = "filling" => next \in Files, pc = "noting" => next \notin Files
  PROVE  SnapInv'
<1>1. /\ make' \in [Creations -> Makes]
      /\ \A d \in Creations : /\ make'[d].stamp = make[d].stamp /\ make'[d].from = make[d].from
                              /\ make'[d].held = make[d].held
      /\ make'[c].pc = pc /\ make'[c].next = next
      /\ \A d \in Creations \ {c} : make'[d] = make[d]
  BY DEF SnapInv, StoreTypes, Makes
<1>2. StoreTypes' /\ NotAhead'
  BY <1>1 DEF SnapInv, StoreTypes, NotAhead
<1>3. Stamped'
  BY <1>1 DEF SnapInv, Stamped, At, Copying
<1>4. CopiedSoFar'
  <2>1. ASSUME NEW d \in Creations, d # c PROVE SoFar(d)'
    <3>1. make'[d] = make[d]
      BY <1>1, <2>1
    <3> QED BY <3>1 DEF SnapInv, CopiedSoFar, SoFar, At, Taken, Copying
  <2>2. SoFar(c)'
    BY <1>1 DEF SoFar, At, Taken, Copying
  <2> QED BY <2>1, <2>2 DEF CopiedSoFar
<1>5. NamesWhole'
  <2>1. \A u \in Seconds, f \in Files : dir[u][f] <= dir'[u][f]
    BY DEF SnapInv, StoreTypes
  <2> QED BY <2>1, <1>1, NamesStayWhole DEF SnapInv, StoreTypes
<1> QED BY <1>2, <1>3, <1>4, <1>5 DEF SnapInv

\* What a step that leaves the number, or the control, of the next file alone writes.
LEMMA SameNext ==
  ASSUME SnapInv, NEW c \in Creations
  PROVE  /\ \A pc : [make[c] EXCEPT !.pc = pc] = [make[c] EXCEPT !.pc = pc, !.next = make[c].next]
         /\ \A n : [make[c] EXCEPT !.next = n] = [make[c] EXCEPT !.pc = make[c].pc, !.next = n]
<1>1. make[c] \in Makes
  BY DEF SnapInv, StoreTypes
<1> QED BY <1>1 DEF Makes

\* A file that does not exist did not when the creation began.
LEMMA SkipFileKeeps == ASSUME SnapInv, NEW c \in Creations, SkipFile(c) PROVE SnapInv'
<1> DEFINE f == make[c].next
<1>1. /\ UNCHANGED <<now, live, dir, manifest, index>>
      /\ At(c, "copying") /\ f \in Files /\ live[f] = 0
      /\ make' = [make EXCEPT ![c].next = f + 1]
  BY DEF SkipFile, store
<1>2. make' = [make EXCEPT ![c] = [@ EXCEPT !.pc = "copying", !.next = f + 1]]
  <2>1. [make[c] EXCEPT !.next = f + 1] = [make[c] EXCEPT !.pc = make[c].pc, !.next = f + 1]
    BY SameNext
  <2>2. make[c].pc = "copying"
    BY <1>1 DEF At
  <2> QED BY <1>1, <2>1, <2>2
<1>3. f \in Nat \ {0} /\ f + 1 \in Nat \ {0} /\ "copying" \in Copying
  BY <1>1, SnapshotAssumption DEF Files, Copying
<1>4. Taken(c, f)
  <2>1. /\ make[c].from[f] \in Nat /\ make[c].from[f] <= live[f]
        /\ dir[make[c].stamp][f] \in Nat
    BY <1>1 DEF SnapInv, NotAhead, StoreTypes, Makes, Stamped, At
  <2> QED BY <1>1, <2>1 DEF Taken
<1>5. ASSUME NEW g \in Files, g < f + 1 PROVE Taken(c, g)
  <2>1. g = f \/ g < f
    BY <1>3, <1>5, SnapshotAssumption DEF Files
  <2> QED BY <2>1, <1>1, <1>4 DEF SnapInv, CopiedSoFar, SoFar, Copying, At
<1> HIDE DEF f
<1> QED BY <1>1, <1>2, <1>3, <1>5, CopyingOn

\* Opening a file, or the manifest, changes the control only.
LEMMA OpenKeeps ==
  ASSUME SnapInv, NEW c \in Creations, OpenFile(c) \/ OpenManifest(c) PROVE SnapInv'
<1>1. PICK pc \in {"filling", "noting"} :
        /\ make' = [make EXCEPT ![c].pc = pc]
        /\ pc = "filling" => make[c].next \in Files
        /\ pc = "noting" => make[c].next \notin Files
  BY DEF OpenFile, OpenManifest
<1>2. UNCHANGED <<now, live, dir, manifest, index>> /\ At(c, "copying")
  BY DEF OpenFile, OpenManifest
<1>3. make' = [make EXCEPT ![c] = [@ EXCEPT !.pc = pc, !.next = make[c].next]]
  BY <1>1, SameNext
<1>4. /\ make[c].next \in Nat \ {0} /\ pc \in Copying
      /\ \A f \in Files : f < make[c].next => Taken(c, f)
  BY <1>2 DEF SnapInv, CopiedSoFar, SoFar, Copying, At
<1> QED BY <1>1, <1>2, <1>3, <1>4, CopyingOn

\* The manifest is written when every file is copied.
LEMMA WriteManifestKeeps == ASSUME SnapInv, NEW c \in Creations, WriteManifest(c) PROVE SnapInv'
<1>1. /\ UNCHANGED <<now, live, dir, index>>
      /\ manifest' = manifest \cup {make[c].stamp}
      /\ make' = [make EXCEPT ![c].pc = "reading"]
      /\ At(c, "noting") /\ make[c].next \notin Files
  BY DEF WriteManifest, SnapInv, CopiedSoFar, SoFar
<1>2. /\ make' \in [Creations -> Makes]
      /\ \A d \in Creations : /\ make'[d].stamp = make[d].stamp /\ make'[d].from = make[d].from
                              /\ make'[d].held = make[d].held
      /\ make'[c].pc = "reading"
      /\ \A d \in Creations \ {c} : make'[d] = make[d]
  BY <1>1 DEF SnapInv, StoreTypes, Makes
<1>3. make[c].stamp \in Seconds
  BY <1>1 DEF SnapInv, Stamped, At
<1>4. StoreTypes'
  BY <1>1, <1>2, <1>3 DEF SnapInv, StoreTypes
<1>5. \A f \in Files : Taken(c, f)
  <2>1. make[c].next \in Nat \ {0}
    BY <1>1 DEF SnapInv, CopiedSoFar, SoFar, Copying, At
  <2>2. \A f \in Files : f < make[c].next
    BY <2>1, <1>1, SnapshotAssumption DEF Files
  <2> QED BY <2>2, <1>1 DEF SnapInv, CopiedSoFar, SoFar, Copying, At
<1>6. Stamped' /\ NotAhead' /\ CopiedSoFar'
  <2>1. ~At(c, "waiting") /\ ~At(c, "waiting")' /\ make'[c].pc \notin Copying
    BY <1>1, <1>2 DEF At, Copying
  <2> QED BY <2>1, <1>1, <1>2, <1>5, FilesLeftAlone
<1>7. NamesWhole'
  <2>1. \A u \in Seconds, f \in Files : dir[u][f] <= dir'[u][f]
    BY <1>1 DEF SnapInv, StoreTypes
  <2> QED BY <2>1, <1>1, <1>2, NamesStayWhole DEF SnapInv, StoreTypes
<1> QED BY <1>4, <1>6, <1>7 DEF SnapInv

\* The steps on the index before it is written, and the end of a creation: only control
\* moves, and what is held is the index or nothing.
LEMMA ControlKeeps ==
  ASSUME SnapInv, NEW c \in Creations, UNCHANGED <<now, live, dir, manifest, index>>,
         make[c].pc \in Copying \cup {"reading", "opening", "writing"},
         NEW pc \in {"opening", "writing", "raised", "dead"},
         pc \in {"opening", "writing"} => make[c].pc \in {"reading", "opening"},
         NEW held, held = make[c].held \/ held = <<>> \/ held = index,
         make' = [make EXCEPT ![c] = [@ EXCEPT !.pc = pc, !.held = held]]
  PROVE  SnapInv'
<1>1. held \in Seq(Entries)
  <2>1. make[c].held \in Seq(Entries) /\ index \in Seq(Entries)
    BY DEF SnapInv, StoreTypes, Makes
  <2>2. <<>> \in Seq(Entries)
    OBVIOUS
  <2> QED BY <2>1, <2>2
<1>2. /\ make' \in [Creations -> Makes]
      /\ \A d \in Creations : make'[d].stamp = make[d].stamp /\ make'[d].from = make[d].from
      /\ make'[c].pc = pc /\ make'[c].held = held
      /\ \A d \in Creations \ {c} : make'[d] = make[d]
  BY <1>1 DEF SnapInv, StoreTypes, Makes
<1>3. StoreTypes'
  BY <1>2 DEF SnapInv, StoreTypes
<1>4. Stamped' /\ NotAhead' /\ CopiedSoFar'
  <2>1. ~At(c, "waiting") /\ ~At(c, "waiting")' /\ make'[c].pc \notin Copying
    BY <1>2 DEF At, Copying
  <2>2. make'[c].pc \in {"reading", "opening", "writing"} =>
          make[c].stamp \in manifest' /\ \A f \in Files : Taken(c, f)
    BY <1>2 DEF SnapInv, CopiedSoFar, SoFar, Copying
  <2> QED BY <2>1, <2>2, <1>2, FilesLeftAlone
<1>5. NamesWhole'
  <2>1. \A u \in Seconds, f \in Files : dir[u][f] <= dir'[u][f]
    BY DEF SnapInv, StoreTypes
  <2>2. \A d \in Creations : make'[d].held = make[d].held \/ make'[d].held = <<>>
                               \/ make'[d].held = index
    BY <1>2
  <2> QED BY <2>1, <2>2, <1>2, NamesStayWhole DEF SnapInv, StoreTypes
<1> QED BY <1>3, <1>4, <1>5 DEF SnapInv

\* The index is taken into hand as it is.
LEMMA ReadIndexKeeps == ASSUME SnapInv, NEW c \in Creations, ReadIndex(c) PROVE SnapInv'
<1>1. /\ UNCHANGED <<now, live, dir, manifest, index>>
      /\ make[c].pc = "reading"
      /\ make' = [make EXCEPT ![c] = [@ EXCEPT !.pc = "opening", !.held = index]]
  BY DEF ReadIndex, At, store
<1> QED BY <1>1, ControlKeeps

\* A creation that is killed leaves its directory, and drops what it held.
LEMMA DieKeeps == ASSUME SnapInv, NEW c \in Creations, Die(c) PROVE SnapInv'
<1>1. /\ UNCHANGED <<now, live, dir, manifest, index>>
      /\ make[c].pc \in Copying \cup {"reading", "opening", "writing"}
      /\ make' = [make EXCEPT ![c] = [@ EXCEPT !.pc = "dead", !.held = <<>>]]
  BY DEF Die, Copying
<1> QED BY <1>1, ControlKeeps

\* Writing pc alone leaves what is held.
LEMMA SameHeld ==
  ASSUME SnapInv, NEW c \in Creations, NEW pc, make' = [make EXCEPT ![c].pc = pc]
  PROVE  make' = [make EXCEPT ![c] = [@ EXCEPT !.pc = pc, !.held = make[c].held]]
<1>1. make[c] \in Makes
  BY DEF SnapInv, StoreTypes
<1>2. [make[c] EXCEPT !.pc = pc] = [make[c] EXCEPT !.pc = pc, !.held = make[c].held]
  BY <1>1 DEF Makes
<1> QED BY <1>2

\* A creation that finds the index empty ends.
LEMMA ReadIndexRaisesKeeps ==
  ASSUME SnapInv, NEW c \in Creations, ReadIndexRaises(c) PROVE SnapInv'
<1>1. /\ UNCHANGED <<now, live, dir, manifest, index>>
      /\ make[c].pc = "reading"
      /\ make' = [make EXCEPT ![c].pc = "raised"]
  BY DEF ReadIndexRaises, At, store
<1>2. make' = [make EXCEPT ![c] = [@ EXCEPT !.pc = "raised", !.held = make[c].held]]
  BY <1>1, SameHeld
<1> QED BY <1>1, <1>2, ControlKeeps

\* Opening the index empties the file; the creation holds what it read.
LEMMA OpenIndexKeeps == ASSUME SnapInv, NEW c \in Creations, OpenIndex(c) PROVE SnapInv'
<1>1. /\ UNCHANGED <<now, live, dir, manifest, index>>
      /\ make[c].pc = "opening"
      /\ make' = [make EXCEPT ![c].pc = "writing"]
  BY DEF OpenIndex, At
<1>2. make' = [make EXCEPT ![c] = [@ EXCEPT !.pc = "writing", !.held = make[c].held]]
  BY <1>1, SameHeld
<1> QED BY <1>1, <1>2, ControlKeeps

\* The entry that is added names the snapshot that this creation completed.
LEMMA WriteIndexKeeps == ASSUME SnapInv, NEW c \in Creations, WriteIndex(c) PROVE SnapInv'
<1>1. /\ UNCHANGED <<now, live, dir, manifest>>
      /\ index' = Append(make[c].held, Entry(c))
      /\ make' = [make EXCEPT ![c] = [@ EXCEPT !.pc = "done", !.held = <<>>]]
      /\ At(c, "writing")
  BY DEF WriteIndex
<1>2. /\ make' \in [Creations -> Makes]
      /\ \A d \in Creations : make'[d].stamp = make[d].stamp /\ make'[d].from = make[d].from
      /\ make'[c].pc = "done" /\ make'[c].held = <<>>
      /\ \A d \in Creations \ {c} : make'[d] = make[d]
  <2>1. <<>> \in Seq(Entries)
    OBVIOUS
  <2>2. [make[c] EXCEPT !.pc = "done", !.held = <<>>] \in Makes
    BY <2>1 DEF SnapInv, StoreTypes, Makes
  <2> QED BY <2>2, <1>1 DEF SnapInv, StoreTypes, Makes
<1>3. make[c].stamp \in Seconds /\ make[c].held \in Seq(Entries) /\ Entry(c) \in Entries
  BY <1>1 DEF SnapInv, Stamped, At, StoreTypes, Makes, Entry, Entries, Labels
<1>4. StoreTypes'
  BY <1>1, <1>2, <1>3 DEF SnapInv, StoreTypes
<1>5. Stamped' /\ NotAhead' /\ CopiedSoFar'
  <2>1. ~At(c, "waiting") /\ ~At(c, "waiting")' /\ make'[c].pc \notin Copying
    BY <1>1, <1>2 DEF At, Copying
  <2> QED BY <2>1, <1>1, <1>2, FilesLeftAlone
<1>6. \A t \in Seconds : Whole(t) => Whole(t)'
  BY <1>1, <1>2 DEF Whole
<1>7. Whole(make[c].stamp)
  BY <1>1 DEF SnapInv, CopiedSoFar, SoFar, Copying, At, Whole, Taken
<1>8. ASSUME NEW i \in DOMAIN index', NEW t, t = index'[i].timestamp PROVE Whole(t)'
  <2>1. CASE i \in DOMAIN make[c].held
    <3>1. index'[i] = make[c].held[i]
      BY <2>1, <1>1, <1>3
    <3>2. t \in Seconds /\ Whole(t)
      BY <2>1, <3>1, <1>8, EntrySeconds DEF SnapInv, NamesWhole
    <3> QED BY <3>2, <1>6
  <2>2. CASE i = Len(make[c].held) + 1
    <3>1. index'[i].timestamp = make[c].stamp
      BY <2>2, <1>1, <1>3 DEF Entry
    <3> QED BY <3>1, <1>3, <1>6, <1>7, <1>8
  <2> QED BY <2>1, <2>2, <1>1, <1>3
<1>9. ASSUME NEW d \in Creations, NEW i \in DOMAIN make'[d].held,
             NEW t, t = make'[d].held[i].timestamp
      PROVE  Whole(t)'
  <2>1. d # c /\ make'[d] = make[d]
    BY <1>2, <1>9
  <2>2. t \in Seconds /\ Whole(t)
    BY <2>1, <1>9, EntrySeconds DEF SnapInv, NamesWhole
  <2> QED BY <2>2, <1>6
<1>10. NamesWhole'
  BY <1>8, <1>9 DEF NamesWhole
<1> QED BY <1>4, <1>5, <1>10 DEF SnapInv

\* Every step, and a stutter, keeps the invariant.
LEMMA NextSnap == ASSUME SnapInv, [Next]_vars PROVE SnapInv'
<1>1. \A f \in Files : live[f] <= live[f]
  BY DEF SnapInv, StoreTypes
<1>2. CASE \E c \in Creations : CreationStep(c)
  BY <1>2, BeginKeeps, SkipFileKeeps, OpenKeeps, CopyFileKeeps, WriteManifestKeeps, ReadIndexKeeps,
     ReadIndexRaisesKeeps, OpenIndexKeeps, WriteIndexKeeps, DieKeeps DEF CreationStep
<1>3. CASE Embed
  BY <1>1, <1>3, NothingMade DEF Embed, store, SnapInv, StoreTypes
<1>4. CASE \E n \in Names : Mount(n)
  BY <1>1, <1>4, NothingMade DEF Mount, store, SnapInv, StoreTypes
<1>5. CASE \E n \in Names, f \in Files : LookUp(n, f)
  BY <1>1, <1>5, NothingMade DEF LookUp, store, SnapInv, StoreTypes
<1>6. CASE \E f \in Files : Read(f)
  BY <1>1, <1>6, NothingMade DEF Read, store, SnapInv, StoreTypes
<1>7. ASSUME NEW f \in Files, Edit(f) PROVE SnapInv'
  <2>1. live' = [live EXCEPT ![f] = live[f] + 1] /\ UNCHANGED <<now, dir, manifest, index, make>>
    BY <1>7 DEF Edit, store
  <2>2. live' \in [Files -> Nat] /\ \A g \in Files : live[g] <= live'[g]
    BY <2>1 DEF SnapInv, StoreTypes
  <2> QED BY <2>1, <2>2, NothingMade DEF SnapInv, StoreTypes
<1>8. CASE Tick
  <2>1. now' \in Seconds /\ UNCHANGED <<live, dir, manifest, index, make>>
    BY <1>8, SnapshotAssumption DEF Tick, store, SnapInv, StoreTypes, Seconds
  <2> QED BY <2>1, <1>1, NothingMade DEF SnapInv, StoreTypes
<1>9. CASE UNCHANGED vars
  BY <1>1, <1>9, NothingMade DEF vars, store, SnapInv, StoreTypes
<1> QED BY <1>2, <1>3, <1>4, <1>5, <1>6, <1>7, <1>8, <1>9 DEF Next

-----------------------------------------------------------------------------
(* What is cut *)

LEMMA InitCut == Init => CutInv
BY DEF Init, CutInv

\* What is cut after a step of one creation: what was and is not what it just wrote, or
\* what it has open or was killed at.
LEMMA CutKept ==
  ASSUME SnapInv, CutInv, NEW c \in Creations, NEW new, make' = [make EXCEPT ![c] = new],
         cut' \in [Seconds -> SUBSET Int],
         \A t \in Seconds : \A f \in cut'[t] :
           \/ /\ f \in cut[t]
              /\ ~(make[c].stamp = t /\ make[c].next = f /\ make[c].pc \in Cutting)
           \/ new.stamp = t /\ new.next = f /\ new.pc \in Cutting
  PROVE  CutInv'
<1>1. \A d \in Creations : make'[d] = IF d = c THEN new ELSE make[d]
  BY DEF SnapInv, StoreTypes
<1>2. ASSUME NEW t \in Seconds, NEW f \in cut'[t] PROVE CutBy(t, f)'
  <2>1. CASE new.stamp = t /\ new.next = f /\ new.pc \in Cutting
    BY <1>1, <2>1 DEF CutBy
  <2>2. CASE f \in cut[t] /\ ~(make[c].stamp = t /\ make[c].next = f /\ make[c].pc \in Cutting)
    <3>1. PICK d \in Creations :
            make[d].stamp = t /\ make[d].next = f /\ make[d].pc \in Cutting
      BY <2>2 DEF CutInv, CutBy
    <3> QED BY <1>1, <2>2, <3>1 DEF CutBy
  <2> QED BY <2>1, <2>2
<1> QED BY <1>2 DEF CutInv

\* A creation that is neither writing nor killed, and writes nothing.
LEMMA CutElsewhere ==
  ASSUME SnapInv, CutInv, NEW c \in Creations, NEW new, make' = [make EXCEPT ![c] = new],
         make[c].pc \notin Cutting, cut' = cut
  PROVE  CutInv'
<1>1. cut' \in [Seconds -> SUBSET Int]
  BY DEF CutInv
<1> QED BY <1>1, CutKept

\* Opening: the file is the one that the creation is now at.
LEMMA OpeningCuts ==
  ASSUME SnapInv, CutInv, NEW c \in Creations, OpenFile(c) \/ OpenManifest(c) PROVE CutInv'
<1>1. PICK pc \in {"filling", "noting"} : make' = [make EXCEPT ![c].pc = pc]
  BY DEF OpenFile, OpenManifest
<1>2. /\ At(c, "copying")
      /\ cut' = [cut EXCEPT ![make[c].stamp] = @ \cup {make[c].next}]
  BY DEF OpenFile, OpenManifest
<1>3. PICK t \in Seconds, n \in Int : t = make[c].stamp /\ n = make[c].next
  <2>1. make[c].stamp \in Seconds
    BY <1>2 DEF SnapInv, Stamped, At
  <2>2. make[c].next \in Int
    BY DEF SnapInv, StoreTypes, Makes
  <2> QED BY <2>1, <2>2
<1>4. PICK new : new = [make[c] EXCEPT !.pc = pc]
  OBVIOUS
<1>5. new.stamp = t /\ new.next = n /\ new.pc \in Cutting
  BY <1>3, <1>4 DEF SnapInv, StoreTypes, Makes, Cutting
<1>6. /\ cut' \in [Seconds -> SUBSET Int]
      /\ \A u \in Seconds : cut'[u] = IF u = t THEN cut[t] \cup {n} ELSE cut[u]
  BY <1>2, <1>3 DEF CutInv
<1>7. make[c].pc \notin Cutting
  BY <1>2 DEF At, Cutting
<1>8. ASSUME NEW u \in Seconds, NEW f \in cut'[u]
      PROVE  f \in cut[u] \/ (new.stamp = u /\ new.next = f /\ new.pc \in Cutting)
  <2>1. f \in cut[u] \/ (u = t /\ f = n)
    BY <1>6, <1>8
  <2> QED BY <1>5, <2>1
<1>9. make' = [make EXCEPT ![c] = new]
  BY <1>1, <1>4
<1>10. \A u \in Seconds : \A f \in cut'[u] :
         \/ /\ f \in cut[u]
            /\ ~(make[c].stamp = u /\ make[c].next = f /\ make[c].pc \in Cutting)
         \/ new.stamp = u /\ new.next = f /\ new.pc \in Cutting
  BY <1>7, <1>8
<1>11. cut' \in [Seconds -> SUBSET Int]
  BY <1>6
<1> QED BY <1>9, <1>10, <1>11, CutKept

\* Writing: the file is whole, whoever else had it open.
LEMMA WritingMends ==
  ASSUME SnapInv, CutInv, NEW c \in Creations, CopyFile(c) \/ WriteManifest(c) PROVE CutInv'
<1>1. PICK new : make' = [make EXCEPT ![c] = new]
  BY DEF CopyFile, WriteManifest
<1>2. /\ make[c].pc \in {"filling", "noting"}
      /\ cut' = [cut EXCEPT ![make[c].stamp] = @ \ {make[c].next}]
  BY DEF CopyFile, WriteManifest, At
<1>3. PICK t \in Seconds, n \in Int : t = make[c].stamp /\ n = make[c].next
  <2>1. make[c].stamp \in Seconds
    BY <1>2 DEF SnapInv, Stamped, At
  <2>2. make[c].next \in Int
    BY DEF SnapInv, StoreTypes, Makes
  <2> QED BY <2>1, <2>2
<1>4. /\ cut' \in [Seconds -> SUBSET Int]
      /\ \A u \in Seconds : cut'[u] = IF u = t THEN cut[t] \ {n} ELSE cut[u]
  BY <1>2, <1>3 DEF CutInv
<1>5. ASSUME NEW u \in Seconds, NEW f \in cut'[u]
      PROVE  f \in cut[u] /\ ~(make[c].stamp = u /\ make[c].next = f)
  <2>1. f \in cut[u] /\ ~(u = t /\ f = n)
    BY <1>4, <1>5
  <2> QED BY <1>3, <2>1
<1>6. \A u \in Seconds : \A f \in cut'[u] :
        \/ /\ f \in cut[u]
           /\ ~(make[c].stamp = u /\ make[c].next = f /\ make[c].pc \in Cutting)
        \/ new.stamp = u /\ new.next = f /\ new.pc \in Cutting
  BY <1>5
<1>7. cut' \in [Seconds -> SUBSET Int]
  BY <1>4
<1> QED BY <1>1, <1>6, <1>7, CutKept

\* A kill leaves cut what was open, or nothing more than was.
LEMMA DyingCuts == ASSUME SnapInv, CutInv, NEW c \in Creations, Die(c) PROVE CutInv'
<1>1. /\ make' = [make EXCEPT ![c] = [@ EXCEPT !.pc = "dead", !.held = <<>>]]
      /\ make[c].pc \in Copying \cup {"reading", "opening", "writing"}
      /\ \/ cut' = cut
         \/ cut' = [cut EXCEPT ![make[c].stamp] = @ \cup {make[c].next}]
  BY DEF Die, Copying
<1>2. PICK t \in Seconds, n \in Int : t = make[c].stamp /\ n = make[c].next
  BY <1>1 DEF SnapInv, StoreTypes, Makes, Stamped, At, Copying
<1>3. PICK new : new = [make[c] EXCEPT !.pc = "dead", !.held = <<>>]
  OBVIOUS
<1>4. new.stamp = t /\ new.next = n /\ new.pc \in Cutting
  BY <1>2, <1>3 DEF SnapInv, StoreTypes, Makes, Cutting
<1>5. /\ cut' \in [Seconds -> SUBSET Int]
      /\ \A u \in Seconds : cut'[u] \subseteq IF u = t THEN cut[t] \cup {n} ELSE cut[u]
  BY <1>1, <1>2 DEF CutInv
<1>6. ASSUME NEW u \in Seconds, NEW f \in cut'[u]
      PROVE  \/ /\ f \in cut[u]
                /\ ~(make[c].stamp = u /\ make[c].next = f /\ make[c].pc \in Cutting)
             \/ new.stamp = u /\ new.next = f /\ new.pc \in Cutting
  <2>1. CASE u = t /\ f = n
    BY <1>4, <2>1
  <2>2. CASE ~(u = t /\ f = n)
    <3>1. f \in cut[u]
      BY <1>5, <1>6, <2>2
    <3> QED BY <1>2, <2>2, <3>1
  <2> QED BY <2>1, <2>2
<1>7. make' = [make EXCEPT ![c] = new]
  BY <1>1, <1>3
<1> QED BY <1>5, <1>6, <1>7, CutKept

LEMMA NextCut == ASSUME SnapInv, CutInv, [Next]_vars PROVE CutInv'
<1>1. ASSUME NEW c \in Creations, CreationStep(c) PROVE CutInv'
  <2>1. CASE OpenFile(c) \/ OpenManifest(c)
    BY <2>1, OpeningCuts
  <2>2. CASE CopyFile(c) \/ WriteManifest(c)
    BY <2>2, WritingMends
  <2>3. CASE Die(c)
    BY <2>3, DyingCuts
  <2>4. CASE \/ Begin(c) \/ SkipFile(c) \/ ReadIndex(c) \/ ReadIndexRaises(c)
             \/ OpenIndex(c) \/ WriteIndex(c)
    <3>1. PICK new : make' = [make EXCEPT ![c] = new]
      BY <2>4 DEF Begin, SkipFile, ReadIndex, ReadIndexRaises, OpenIndex, WriteIndex
    <3>2. make[c].pc \notin Cutting /\ cut' = cut
      BY <2>4 DEF Begin, SkipFile, ReadIndex, ReadIndexRaises, OpenIndex, WriteIndex, store,
                  At, Cutting
    <3> QED BY <3>1, <3>2, CutElsewhere
  <2> QED BY <1>1, <2>1, <2>2, <2>3, <2>4 DEF CreationStep
<1>2. CASE \/ Embed \/ Tick \/ UNCHANGED vars
           \/ \E n \in Names : Mount(n)
           \/ \E n \in Names, f \in Files : LookUp(n, f)
           \/ \E f \in Files : Read(f) \/ Edit(f)
  <2>1. UNCHANGED <<make, cut>>
    BY <1>2 DEF Embed, Tick, vars, Mount, LookUp, Read, Edit, store
  <2> QED BY <2>1 DEF CutInv, CutBy
<1> QED BY <1>1, <1>2 DEF Next

\* For any number of creations and files, however they are killed, edited, overlapping or
\* made in one second: what the index names was completed, and nothing of it is cut but
\* what another creation of the same second is writing or was killed at (create_snapshot,
\* _update_snapshot_index).
THEOREM IndexedSnapshotsAreComplete == Spec => []IndexedIsComplete
<1>1. SnapInv /\ CutInv => IndexedIsComplete
  <2> SUFFICES ASSUME SnapInv, CutInv, NEW i \in DOMAIN index, NEW t, t = index[i].timestamp
               PROVE  Whole(t) /\ \A f \in cut[t] : CutBy(t, f)
    BY DEF IndexedIsComplete, Whole, CutBy, Cutting
  <2>1. t \in Seconds
    BY EntrySeconds DEF SnapInv
  <2> QED BY <2>1 DEF SnapInv, NamesWhole, CutInv
<1>2. SnapInv /\ CutInv /\ [Next]_vars => (SnapInv /\ CutInv)'
  BY NextSnap, NextCut
<1> QED BY <1>1, <1>2, InitSnap, InitCut, PTL DEF Spec

-----------------------------------------------------------------------------
(* Listing and answering *)

\* The types of what is read and linked.
ReadTypes ==
  /\ current \in Seconds \cup {None}
  /\ evidence \subseteq Seconds
  /\ mounted \in [name : Names \cup {None}, at : Seconds \cup {None}]
  /\ mounted.at # None => mounted.name \in Names
  /\ said \in [Names -> [Files -> SUBSET Int]]
  /\ overlapped \in BOOLEAN

\* The index lists what was finished, and what evidence may name.
AllListed ==
  /\ \A c \in Creations : At(c, "done") => Listed(make[c].stamp)
  /\ current # None => Listed(current)
  /\ \A t \in evidence : Listed(t)

Listing == ~overlapped => AllListed

\* An entry is of a creation that is over.  What a name stands for is what it stood for
\* when it was mounted or asked for, and what was read is there still.
StillSo ==
  /\ \A i \in DOMAIN index :
       \E c \in Creations : At(c, "done") /\ make[c].stamp = index[i].timestamp
  /\ mounted.at # None => Found(mounted.name) = mounted.at
  /\ \A n \in Names, f \in Files :
       \A v \in said[n][f] : Found(n) # None /\ v = Version(Found(n), f)

Answering == ~overlapped /\ Distinct => StillSo

ReadInv == SnapInv /\ CutInv /\ ReadTypes /\ Listing /\ Answering

LEMMA InitRead == Init => ReadInv
<1> SUFFICES ASSUME Init PROVE ReadInv
  OBVIOUS
<1>1. /\ index = <<>> /\ current = None /\ evidence = {} /\ overlapped = FALSE
      /\ mounted = [name |-> None, at |-> None]
      /\ said = [n \in Names |-> [f \in Files |-> {}]]
      /\ \A c \in Creations : make[c].pc = "waiting"
  BY DEF Init, NewMake
<1>2. ReadTypes
  BY <1>1 DEF ReadTypes
<1>3. Listing
  BY <1>1 DEF Listing, AllListed, At
<1>4. Answering
  <2>1. \A n \in Names, f \in Files : said[n][f] = {}
    BY <1>1
  <2>2. mounted.at = None /\ DOMAIN index = {}
    BY <1>1
  <2> QED BY <2>1, <2>2 DEF Answering, StillSo
<1> QED BY <1>2, <1>3, <1>4, InitSnap, InitCut DEF ReadInv

\* A set of natural numbers has a least one.
LEMMA Least ==
  ASSUME NEW S \in SUBSET Nat, S # {}
  PROVE  \E i \in S : \A j \in S : i <= j
<1>1. PICK i \in S : \A j \in S : ~(<<j, i>> \in OpToRel(<, Nat))
  BY NatLessThanWellFounded, WFMin
<1>2. \A j \in S : ~(j < i)
  BY <1>1 DEF OpToRel
<1>3. i \in Nat /\ \A j \in S : j \in Nat
  OBVIOUS
<1>4. \A j \in S : i <= j
  BY <1>2, <1>3
<1> QED BY <1>4

\* Timestamps are found by themselves; what a name is found to stand for is in the index.
LEMMA FoundListed ==
  ASSUME StoreTypes, NEW n, Found(n) # None
  PROVE  Listed(Found(n)) /\ Found(n) \in Seconds
<1>1. CASE Listed(n)
  BY <1>1, EntrySeconds DEF Found, Listed
<1>2. CASE ~Listed(n)
  <2>1. Labelled(n) # {} /\ Labelled(n) \in SUBSET Nat
    <3>1. Labelled(n) # {}
      BY <1>2 DEF Found
    <3>2. DOMAIN index \in SUBSET Nat
      BY DEF StoreTypes
    <3> QED BY <3>1, <3>2 DEF Labelled
  <2>2. \E i \in Labelled(n) : \A j \in Labelled(n) : i <= j
    BY <2>1, Least
  <2>3. Found(n) = index[CHOOSE i \in Labelled(n) : \A j \in Labelled(n) : i <= j].timestamp
    BY <1>2, <2>1 DEF Found
  <2>4. PICK i \in Labelled(n) : Found(n) = index[i].timestamp
    BY <2>2, <2>3
  <2> QED BY <2>4, EntrySeconds DEF Labelled, Listed
<1> QED BY <1>1, <1>2

\* An entry more changes nothing about a name that stands for something, unless the name
\* is a label and the entry's timestamp at once.
LEMMA FoundStays ==
  ASSUME StoreTypes, NEW e \in Entries, index' = Append(index, e), NEW n,
         Found(n) # None, Listed(n) \/ e.timestamp # n
  PROVE  Found(n)' = Found(n)
<1>1. Len(index) \in Nat /\ DOMAIN index = 1..Len(index)
  BY DEF StoreTypes
<1>2. /\ DOMAIN index' = 1..(Len(index) + 1)
      /\ \A i \in DOMAIN index : index'[i] = index[i]
      /\ index'[Len(index) + 1] = e
  BY DEF StoreTypes
<1>3. Listed(n)' <=> Listed(n) \/ e.timestamp = n
  <2>1. ASSUME NEW i \in DOMAIN index' PROVE i \in DOMAIN index \/ i = Len(index) + 1
    BY <1>1, <1>2
  <2>2. DOMAIN index \subseteq DOMAIN index' /\ Len(index) + 1 \in DOMAIN index'
    BY <1>1, <1>2
  <2> QED BY <1>2, <2>1, <2>2 DEF Listed
<1>4. CASE Listed(n)
  BY <1>3, <1>4 DEF Found
<1>5. CASE ~Listed(n)
  <2> DEFINE S == Labelled(n)
             first(T, i) == i \in T /\ \A j \in T : i <= j
  <2>1. S # {} /\ S \in SUBSET Nat /\ S \subseteq 1..Len(index)
    BY <1>1, <1>5 DEF Found, Labelled
  <2>2. PICK T : T = Labelled(n)'
    OBVIOUS
  <2>3. S \subseteq T /\ T \subseteq S \cup {Len(index) + 1}
    <3>1. T = {i \in DOMAIN index' : index'[i].label = n}
      BY <2>2 DEF Labelled
    <3>2. \A i \in DOMAIN index' : i \in DOMAIN index \/ i = Len(index) + 1
      BY <1>1, <1>2
    <3>3. DOMAIN index \subseteq DOMAIN index'
      BY <1>1, <1>2
    <3> QED BY <1>2, <3>1, <3>2, <3>3 DEF Labelled
  <2> HIDE DEF S
  <2>4. PICK i : i = CHOOSE k \in S : \A j \in S : k <= j
    OBVIOUS
  <2>5. PICK h : h = CHOOSE k \in T : \A j \in T : k <= j
    OBVIOUS
  <2>6. i \in S /\ \A j \in S : i <= j
    BY <2>1, <2>4, Least
  <2>7. \A j \in T : i <= j
    <3>1. i <= Len(index) + 1
      BY <1>1, <2>1, <2>6
    <3> QED BY <2>3, <2>6, <3>1
  <2>8. h \in T /\ \A j \in T : h <= j
    BY <2>3, <2>5, <2>6, <2>7
  <2>9. i \in Int /\ h \in Int /\ i \in T
    BY <1>1, <2>1, <2>3, <2>6, <2>8
  <2>10. h <= i /\ i <= h
    BY <2>7, <2>8, <2>9
  <2>11. h = i
    BY <2>9, <2>10
  <2>12. Found(n) = index[i].timestamp
    BY <1>5, <2>1, <2>4 DEF Found, S
  <2>13. Found(n)' = index'[h].timestamp
    <3>1. ~Listed(n)' /\ T # {}
      BY <1>3, <1>5, <2>9
    <3> QED BY <2>2, <2>5, <3>1 DEF Found
  <2>14. i \in DOMAIN index
    BY <1>1, <2>1, <2>6
  <2> QED BY <1>2, <2>11, <2>12, <2>13, <2>14
<1> QED BY <1>4, <1>5

-----------------------------------------------------------------------------
(* The steps again *)

\* A step that leaves the index and what was read alone, ends no creation well, and writes
\* in the directory of a copying creation only.
Preparing ==
  /\ UNCHANGED <<index, current, mounted, said>>
  /\ evidence' = evidence \/ (current # None /\ evidence' = evidence \cup {current})
  /\ overlapped => overlapped'
  /\ overlapped' \in BOOLEAN
  /\ \A c \in Creations : /\ make[c].stamp # None => make'[c].stamp = make[c].stamp
                          /\ At(c, "done") <=> At(c, "done")'
  /\ \A t \in Seconds, f \in Files :
       \/ dir'[t][f] = dir[t][f] /\ (f \in cut'[t] <=> f \in cut[t])
       \/ \E c \in Creations : make[c].pc \in Copying /\ make[c].stamp = t

LEMMA PreparingInv == ASSUME ReadInv, Preparing, SnapInv', CutInv' PROVE ReadInv'
<1>1. ReadTypes'
  BY DEF Preparing, ReadInv, ReadTypes
<1>2. \A c \in Creations : At(c, "done") => make[c].stamp \in Seconds /\ make[c].stamp # None
  BY SecondsFacts DEF ReadInv, SnapInv, Stamped, At
<1>3. \A n : Listed(n)' = Listed(n) /\ Labelled(n)' = Labelled(n) /\ Found(n)' = Found(n)
  BY DEF Preparing, Listed, Labelled, Found
<1>4. Listing'
  <2> SUFFICES ASSUME ~overlapped' PROVE AllListed'
    BY DEF Listing
  <2>1. AllListed
    BY DEF Preparing, ReadInv, Listing
  <2>2. \A c \in Creations : At(c, "done")' => Listed(make[c].stamp)'
    BY <1>2, <2>1 DEF Preparing, AllListed, Listed
  <2>3. current' # None => Listed(current)'
    BY <2>1 DEF Preparing, AllListed, Listed
  <2>4. \A t \in evidence' : Listed(t)'
    BY <2>1 DEF Preparing, AllListed, Listed
  <2> QED BY <2>2, <2>3, <2>4 DEF AllListed
<1>5. Answering'
  <2> SUFFICES ASSUME ~overlapped', Distinct' PROVE StillSo'
    BY DEF Answering
  <2>1. Distinct
    BY DEF Distinct, Preparing
  <2>2. StillSo
    BY <2>1 DEF Preparing, ReadInv, Answering
  <2>3. \A i \in DOMAIN index' :
          \E c \in Creations : At(c, "done")' /\ make'[c].stamp = index'[i].timestamp
    BY <1>2, <2>2 DEF Preparing, StillSo
  <2>4. mounted'.at # None => Found(mounted.name)' = mounted'.at
    BY <2>2 DEF Preparing, StillSo, Found, Listed, Labelled
  <2>5. ASSUME NEW t \in Seconds, NEW f \in Files, Listed(t)
        PROVE  dir'[t][f] = dir[t][f] /\ (f \in cut'[t] <=> f \in cut[t])
    <3>1. PICK c \in Creations : At(c, "done") /\ make[c].stamp = t
      BY <2>2, <2>5 DEF Listed, StillSo
    <3>2. \A d \in Creations : make[d].pc \in Copying => make[d].stamp # t
      BY <1>2, <2>1, <3>1 DEF At, Distinct, Copying
    <3> QED BY <3>2 DEF Preparing
  <2>6. \A n \in Names, f \in Files :
          \A v \in said'[n][f] : Found(n)' # None /\ v = Version(Found(n), f)'
    <3> SUFFICES ASSUME NEW n \in Names, NEW f \in Files, NEW v \in said[n][f]
                 PROVE  Found(n)' # None /\ v = Version(Found(n), f)'
      BY DEF Preparing
    <3>1. Found(n) # None /\ v = Version(Found(n), f)
      BY <2>2 DEF StillSo
    <3>2. Listed(Found(n)) /\ Found(n) \in Seconds
      BY <3>1, FoundListed DEF ReadInv, SnapInv
    <3>3. /\ dir'[Found(n)][f] = dir[Found(n)][f]
          /\ f \in cut'[Found(n)] <=> f \in cut[Found(n)]
      BY <2>5, <3>2
    <3> QED BY <1>3, <3>1, <3>3 DEF Version
  <2> QED BY <2>3, <2>4, <2>6 DEF StillSo
<1> QED BY <1>1, <1>4, <1>5 DEF ReadInv

\* The steps that prepare.
LEMMA PreparingSteps ==
  ASSUME SnapInv, CutInv, overlapped \in BOOLEAN,
         \/ \E c \in Creations : CreationStep(c) /\ ~WriteIndex(c)
         \/ Embed \/ Tick \/ UNCHANGED vars
         \/ \E f \in Files : Edit(f)
  PROVE  Preparing
<1>1. make \in [Creations -> Makes]
  BY DEF SnapInv, StoreTypes
<1>2. \A c \in Creations : make[c] \in Makes
  BY <1>1
<1>3. ASSUME NEW c \in Creations, NEW new \in Makes, make' = [make EXCEPT ![c] = new],
             make[c].stamp # None => new.stamp = make[c].stamp,
             make[c].pc # "done", new.pc # "done",
             UNCHANGED <<index, current, mounted, said, evidence>>,
             \A t \in Seconds, f \in Files :
               \/ dir'[t][f] = dir[t][f] /\ (f \in cut'[t] <=> f \in cut[t])
               \/ make[c].pc \in Copying /\ make[c].stamp = t,
             overlapped => overlapped', overlapped' \in BOOLEAN
      PROVE  Preparing
  <2>1. \A d \in Creations : make'[d] = IF d = c THEN new ELSE make[d]
    BY <1>1, <1>3
  <2>2. \A d \in Creations : /\ make[d].stamp # None => make'[d].stamp = make[d].stamp
                             /\ At(d, "done") <=> At(d, "done")'
    BY <1>3, <2>1 DEF At
  <2> QED BY <1>3, <2>2 DEF Preparing
<1>4. ASSUME NEW c \in Creations, Begin(c) PROVE Preparing
  <2> DEFINE new == [make[c] EXCEPT !.pc = "copying", !.stamp = Stamp(now), !.from = live]
  <2>1. new \in Makes /\ new.pc = "copying"
    BY <1>2 DEF SnapInv, StoreTypes, Makes, Stamp, Copying
  <2>2. make' = [make EXCEPT ![c] = new]
    BY <1>4 DEF Begin
  <2>3. make[c].pc = "waiting" /\ make[c].stamp = None
    BY <1>4 DEF Begin, At, SnapInv, Stamped
  <2>4. UNCHANGED <<index, current, mounted, said, evidence, dir, cut, overlapped>>
    BY <1>4 DEF Begin, store, linked, reading
  <2> HIDE DEF new
  <2> QED BY <1>3, <2>1, <2>2, <2>3, <2>4
<1>5. ASSUME NEW c \in Creations,
             \/ SkipFile(c) \/ OpenFile(c) \/ CopyFile(c) \/ OpenManifest(c) \/ WriteManifest(c)
      PROVE  Preparing
  <2>1. PICK pc \in Copying \cup {"reading"}, next \in {make[c].next, make[c].next + 1} :
          make' = [make EXCEPT ![c] = [@ EXCEPT !.pc = pc, !.next = next]]
    <3>1. CASE SkipFile(c)
      <4>1. make[c].pc = "copying" /\ make' = [make EXCEPT ![c].next = make[c].next + 1]
        BY <3>1 DEF SkipFile, At
      <4>2. [make[c] EXCEPT !.next = make[c].next + 1]
              = [make[c] EXCEPT !.pc = make[c].pc, !.next = make[c].next + 1]
        BY SameNext
      <4> QED BY <4>1, <4>2 DEF Copying
    <3>2. CASE CopyFile(c)
      BY <3>2 DEF CopyFile, Copying
    <3>3. CASE OpenFile(c) \/ OpenManifest(c) \/ WriteManifest(c)
      <4>1. PICK pc \in Copying \cup {"reading"} : make' = [make EXCEPT ![c].pc = pc]
        BY <3>3 DEF OpenFile, OpenManifest, WriteManifest, Copying
      <4> QED BY <4>1, SameNext
    <3> QED BY <1>5, <3>1, <3>2, <3>3
  <2>2. /\ make[c].pc \in Copying
        /\ UNCHANGED <<index, current, mounted, said, evidence, overlapped>>
    BY <1>5 DEF SkipFile, OpenFile, CopyFile, OpenManifest, WriteManifest, linked, reading,
                store, At, Copying
  <2>3. PICK new : new = [make[c] EXCEPT !.pc = pc, !.next = next]
    OBVIOUS
  <2>4. new \in Makes /\ new.stamp = make[c].stamp /\ new.pc = pc
    <3>1. make[c] \in Makes /\ next \in Nat
      BY <1>2 DEF Makes
    <3> QED BY <2>3, <3>1 DEF Makes, Copying
  <2>5. \A t \in Seconds : t # make[c].stamp => dir'[t] = dir[t] /\ cut'[t] = cut[t]
    <3>1. \/ dir' = dir
          \/ \E f, v : dir' = [dir EXCEPT ![make[c].stamp][f] = v]
      BY <1>5 DEF SkipFile, OpenFile, CopyFile, OpenManifest, WriteManifest, store
    <3>2. \/ cut' = cut
          \/ \E v : cut' = [cut EXCEPT ![make[c].stamp] = v]
      BY <1>5 DEF SkipFile, OpenFile, CopyFile, OpenManifest, WriteManifest, store
    <3>3. dir \in [Seconds -> [Files -> Nat]] /\ cut \in [Seconds -> SUBSET Int]
      BY DEF SnapInv, StoreTypes, CutInv
    <3> QED BY <3>1, <3>2, <3>3
  <2>6. make' = [make EXCEPT ![c] = new] /\ new.pc # "done" /\ make[c].pc # "done"
    BY <2>1, <2>2, <2>3, <2>4 DEF Copying
  <2> QED BY <1>3, <2>2, <2>4, <2>5, <2>6
<1>6. ASSUME NEW c \in Creations, ReadIndexRaises(c) \/ OpenIndex(c)
      PROVE  Preparing
  <2>1. PICK pc \in {"raised", "writing"} : make' = [make EXCEPT ![c].pc = pc]
    BY <1>6 DEF ReadIndexRaises, OpenIndex
  <2>2. /\ make[c].pc # "done"
        /\ UNCHANGED <<index, current, mounted, said, evidence, dir, cut>>
        /\ overlapped => overlapped'
        /\ overlapped' \in BOOLEAN
    BY <1>6 DEF ReadIndexRaises, OpenIndex, At, store, linked, reading
  <2>3. PICK new : new = [make[c] EXCEPT !.pc = pc]
    OBVIOUS
  <2>4. new \in Makes /\ new.stamp = make[c].stamp /\ new.pc = pc
    BY <1>2, <2>3 DEF Makes
  <2>5. make' = [make EXCEPT ![c] = new]
    BY <2>1, <2>3
  <2> QED BY <1>3, <2>2, <2>4, <2>5
<1>7. ASSUME NEW c \in Creations, ReadIndex(c) \/ Die(c) PROVE Preparing
  <2>1. PICK pc \in {"opening", "dead"}, held \in {index, <<>>} :
          make' = [make EXCEPT ![c] = [@ EXCEPT !.pc = pc, !.held = held]]
    BY <1>7 DEF ReadIndex, Die
  <2>2. /\ make[c].pc # "done"
        /\ UNCHANGED <<index, current, mounted, said, evidence, dir, overlapped>>
    BY <1>7 DEF ReadIndex, Die, At, store, linked, reading
  <2>7. ASSUME NEW t \in Seconds, NEW f \in Files
        PROVE  \/ dir'[t][f] = dir[t][f] /\ (f \in cut'[t] <=> f \in cut[t])
               \/ make[c].pc \in Copying /\ make[c].stamp = t
    <3>1. CASE cut' = cut
      BY <2>2, <3>1
    <3>2. CASE make[c].pc \in Copying /\ \E v : cut' = [cut EXCEPT ![make[c].stamp] = v]
      BY <2>2, <3>2 DEF CutInv
    <3> QED BY <1>7, <3>1, <3>2 DEF ReadIndex, Die, store, Copying
  <2>3. PICK new : new = [make[c] EXCEPT !.pc = pc, !.held = held]
    OBVIOUS
  <2>4. held \in Seq(Entries)
    <3>1. index \in Seq(Entries) /\ <<>> \in Seq(Entries)
      BY DEF SnapInv, StoreTypes
    <3> QED BY <3>1
  <2>5. new \in Makes /\ new.stamp = make[c].stamp /\ new.pc = pc
    BY <1>2, <2>3, <2>4 DEF Makes
  <2>6. make' = [make EXCEPT ![c] = new]
    BY <2>1, <2>3
  <2>8. new.pc # "done"
    BY <2>5
  <2> QED BY <1>3, <2>2, <2>5, <2>6, <2>7, <2>8
<1>8. CASE Embed \/ Tick \/ UNCHANGED vars \/ \E f \in Files : Edit(f)
  BY <1>8 DEF Embed, Tick, Edit, vars, store, linked, reading, Preparing, At
<1> QED BY <1>4, <1>5, <1>6, <1>7, <1>8 DEF CreationStep

\* The entry that is added is behind those there are: what was listed is, and what a name
\* was found to stand for it stands for.
LEMMA AddingInv ==
  ASSUME LabelsApart, ReadInv, NEW c \in Creations, WriteIndex(c), SnapInv', CutInv'
  PROVE  ReadInv'
<1>1. /\ index' = Append(make[c].held, Entry(c))
      /\ make' = [make EXCEPT ![c] = [@ EXCEPT !.pc = "done", !.held = <<>>]]
      /\ current' = IF c \in Checkpoints THEN make[c].stamp ELSE current
      /\ overlapped' = (overlapped \/ index # make[c].held)
      /\ UNCHANGED <<dir, cut, evidence, mounted, said>>
      /\ At(c, "writing")
  BY DEF WriteIndex, reading
<1>2. /\ \A d \in Creations : make'[d].stamp = make[d].stamp
      /\ \A d \in Creations : At(d, "done")' => d = c \/ At(d, "done")
      /\ \A d \in Creations : At(d, "done") => At(d, "done")'
      /\ At(c, "done")'
  <2>1. \A d \in Creations : make[d] \in Makes
    BY DEF ReadInv, SnapInv, StoreTypes
  <2>2. /\ make'[c].stamp = make[c].stamp /\ make'[c].pc = "done"
        /\ \A d \in Creations \ {c} : make'[d] = make[d]
    BY <1>1, <2>1 DEF ReadInv, SnapInv, StoreTypes, Makes
  <2> QED BY <1>1, <2>2 DEF At
<1>3. /\ make[c].stamp \in Seconds /\ Entry(c) \in Entries
      /\ Entry(c).timestamp = make[c].stamp
  BY <1>1 DEF ReadInv, SnapInv, Stamped, At, Entry, Entries, Labels
<1>4. ReadTypes'
  BY <1>1, <1>3 DEF ReadInv, ReadTypes
<1>5. ASSUME ~overlapped'
      PROVE  /\ ~overlapped
             /\ index' = Append(index, Entry(c))
             /\ DOMAIN index \subseteq DOMAIN index'
             /\ \A i \in DOMAIN index : index'[i] = index[i]
             /\ \A i \in DOMAIN index' : i \in DOMAIN index \/ index'[i] = Entry(c)
             /\ \E i \in DOMAIN index' : index'[i] = Entry(c)
  <2>1. ~overlapped /\ index' = Append(index, Entry(c))
    BY <1>1, <1>5
  <2>2. index \in Seq(Entries) /\ Len(index) \in Nat
    BY DEF ReadInv, SnapInv, StoreTypes
  <2> QED BY <1>3, <2>1, <2>2
<1>6. Listing'
  <2> SUFFICES ASSUME ~overlapped' PROVE AllListed'
    BY DEF Listing
  <2>1. AllListed
    BY <1>5 DEF ReadInv, Listing
  <2>2. \A t : Listed(t) \/ t = make[c].stamp => Listed(t)'
    BY <1>3, <1>5 DEF Listed
  <2>3. \A d \in Creations : At(d, "done")' => Listed(make[d].stamp)'
    <3> SUFFICES ASSUME NEW d \in Creations, At(d, "done")' PROVE Listed(make[d].stamp)'
      OBVIOUS
    <3>1. PICK t : t = make[d].stamp
      OBVIOUS
    <3>2. Listed(t)'
      BY <1>2, <2>1, <2>2, <3>1 DEF AllListed
    <3> QED BY <1>2, <3>1, <3>2 DEF Listed
  <2>4. current' # None => Listed(current)'
    <3>1. PICK t : t = current'
      OBVIOUS
    <3>2. t # None => Listed(t)'
      BY <1>1, <2>1, <2>2, <3>1 DEF AllListed
    <3> QED BY <3>1, <3>2 DEF Listed
  <2>5. \A t \in evidence' : Listed(t)'
    BY <1>1, <2>1, <2>2 DEF AllListed
  <2> QED BY <2>3, <2>4, <2>5 DEF AllListed
<1>7. Answering'
  <2> SUFFICES ASSUME ~overlapped', Distinct' PROVE StillSo'
    BY DEF Answering
  <2>1. StillSo
    BY <1>2, <1>5 DEF Distinct, ReadInv, Answering
  <2>2. \A i \in DOMAIN index' :
          \E d \in Creations : At(d, "done")' /\ make'[d].stamp = index'[i].timestamp
    BY <1>2, <1>3, <1>5, <2>1 DEF StillSo
  <2>3. ASSUME NEW n, Found(n) # None PROVE Found(n)' = Found(n)
    <3>1. Listed(n) \/ make[c].stamp # n
      <4> SUFFICES ASSUME ~Listed(n) PROVE n \notin Seconds
        BY <1>3
      <4>1. PICK i \in DOMAIN index : index[i].label = n
        BY <2>3 DEF Found, Labelled
      <4>2. index[i] \in Entries
        BY DEF ReadInv, SnapInv, StoreTypes
      <4> QED BY <4>1, <4>2 DEF Entries, Labels, LabelsApart
    <3>2. PICK e \in Entries : index' = Append(index, e) /\ e.timestamp = make[c].stamp
      BY <1>3, <1>5
    <3> QED BY <2>3, <3>1, <3>2, FoundStays DEF ReadInv, SnapInv
  <2>4. mounted'.at # None => Found(mounted.name)' = mounted'.at
    <3>1. PICK n : n = mounted.name
      OBVIOUS
    <3>2. mounted.at # None => Found(n)' = mounted.at
      BY <2>1, <2>3, <3>1 DEF StillSo
    <3> QED BY <1>1, <3>1, <3>2 DEF Found, Listed, Labelled
  <2>5. \A n \in Names, f \in Files :
          \A v \in said'[n][f] : Found(n)' # None /\ v = Version(Found(n), f)'
    <3> SUFFICES ASSUME NEW n \in Names, NEW f \in Files, NEW v \in said[n][f]
                 PROVE  Found(n)' # None /\ v = Version(Found(n), f)'
      BY <1>1
    <3>1. Found(n) # None /\ v = Version(Found(n), f)
      BY <2>1 DEF StillSo
    <3> QED BY <1>1, <2>3, <3>1 DEF Version
  <2> QED BY <2>2, <2>4, <2>5 DEF StillSo
<1> QED BY <1>4, <1>6, <1>7 DEF ReadInv

\* A reading of a file, of a timestamp a name stands for.
LEMMA ReadingInv ==
  ASSUME ReadInv, SnapInv', CutInv', NEW n \in Names, NEW t \in Seconds,
         ~overlapped /\ Distinct => Found(n) = t,
         UNCHANGED <<store, make, linked, overlapped>>,
         mounted' \in {mounted, [name |-> n, at |-> t]},
         \/ said' = said
         \/ \E f \in Files : said' = [said EXCEPT ![n][f] = @ \cup {Version(t, f)}]
  PROVE  ReadInv'
<1>1. UNCHANGED <<dir, manifest, cut, index, emptied, make, current, evidence, overlapped>>
  BY DEF store, linked
<1>2. \A f \in Files : Version(t, f) \in Int
  BY DEF Version, ReadInv, SnapInv, StoreTypes
<1>3. /\ said' \in [Names -> [Files -> SUBSET Int]]
      /\ \A m \in Names, f \in Files : \A v \in said'[m][f] :
           v \in said[m][f] \/ (m = n /\ v = Version(t, f))
  <2>1. said \in [Names -> [Files -> SUBSET Int]]
    BY DEF ReadInv, ReadTypes
  <2>2. CASE said' = said
    BY <2>1, <2>2
  <2>3. ASSUME NEW f \in Files, said' = [said EXCEPT ![n][f] = @ \cup {Version(t, f)}]
        PROVE  <1>3
    <3>1. PICK v \in Int : v = Version(t, f)
      BY <1>2
    <3>2. PICK new : new = said[n][f] \cup {v}
      OBVIOUS
    <3>3. new \in SUBSET Int
      BY <2>1, <3>2
    <3>4. said' = [said EXCEPT ![n][f] = new]
      BY <2>3, <3>1, <3>2
    <3>5. /\ said' \in [Names -> [Files -> SUBSET Int]]
          /\ \A m \in Names, g \in Files :
               said'[m][g] = IF m = n /\ g = f THEN new ELSE said[m][g]
      BY <2>1, <3>3, <3>4
    <3> QED BY <3>1, <3>2, <3>5
  <2> QED BY <2>2, <2>3
<1>4. /\ mounted' \in [name : Names \cup {None}, at : Seconds \cup {None}]
      /\ mounted'.at # None => mounted'.name \in Names
  BY DEF ReadInv, ReadTypes
<1>5. ReadTypes'
  BY <1>1, <1>3, <1>4 DEF ReadInv, ReadTypes
<1>6. Listing'
  BY <1>1 DEF ReadInv, Listing, AllListed, At, Listed
<1>7. Answering'
  <2> SUFFICES ASSUME ~overlapped, Distinct PROVE StillSo'
    BY <1>1 DEF Answering, Distinct
  <2>1. StillSo /\ Found(n) = t
    BY DEF ReadInv, Answering
  <2>2. t # None
    BY SecondsFacts
  <2>3. \A m : Found(m)' = Found(m)
    BY <1>1 DEF Found, Listed, Labelled
  <2>4. \A i \in DOMAIN index' :
          \E d \in Creations : At(d, "done")' /\ make'[d].stamp = index'[i].timestamp
    BY <1>1, <2>1 DEF StillSo, At
  <2>5. mounted'.at # None => Found(mounted.name)' = mounted'.at
    <3>1. PICK m : m = mounted'.name
      OBVIOUS
    <3>2. mounted'.at # None => Found(m) = mounted'.at
      BY <2>1, <3>1 DEF StillSo
    <3> QED BY <1>1, <3>1, <3>2 DEF Found, Listed, Labelled
  <2>6. \A m \in Names, f \in Files :
          \A v \in said'[m][f] : Found(m)' # None /\ v = Version(Found(m), f)'
    BY <1>1, <1>3, <2>1, <2>2, <2>3 DEF StillSo, Version
  <2> QED BY <2>4, <2>5, <2>6 DEF StillSo
<1> QED BY <1>5, <1>6, <1>7 DEF ReadInv

LEMMA NextRead == ASSUME LabelsApart, ReadInv, [Next]_vars PROVE ReadInv'
<1>1. SnapInv' /\ CutInv'
  BY NextSnap, NextCut DEF ReadInv
<1>2. SnapInv /\ CutInv /\ overlapped \in BOOLEAN
  BY DEF ReadInv, ReadTypes
<1>3. ASSUME NEW c \in Creations, CreationStep(c) PROVE ReadInv'
  <2>1. CASE WriteIndex(c)
    BY <1>1, <2>1, AddingInv
  <2>2. CASE ~WriteIndex(c)
    <3>1. Preparing
      BY <1>2, <1>3, <2>2, PreparingSteps
    <3> QED BY <1>1, <3>1, PreparingInv
  <2> QED BY <2>1, <2>2
<1>4. CASE Embed \/ Tick \/ UNCHANGED vars \/ \E f \in Files : Edit(f)
  <2>1. Preparing
    BY <1>2, <1>4, PreparingSteps
  <2> QED BY <1>1, <2>1, PreparingInv
<1>5. ASSUME NEW n \in Names, Found(n) # None PROVE Found(n) \in Seconds
  BY <1>5, FoundListed DEF ReadInv, SnapInv
<1>6. ASSUME NEW n \in Names, Mount(n) PROVE ReadInv'
  <2>1. CASE Found(n) = None
    <3>1. UNCHANGED vars
      BY <1>6, <2>1 DEF Mount, vars, reading
    <3> QED BY <1>4, <3>1
  <2>2. CASE Found(n) # None
    <3>1. PICK t \in Seconds : t = Found(n)
      BY <1>5, <2>2
    <3>2. /\ mounted' = [name |-> n, at |-> t] /\ said' = said
          /\ UNCHANGED <<store, make, linked, overlapped>>
      BY <1>6, <2>2, <3>1 DEF Mount
    <3> QED BY <1>1, <3>1, <3>2, ReadingInv
  <2> QED BY <2>1, <2>2
<1>7. ASSUME NEW f \in Files, Read(f) PROVE ReadInv'
  <2>1. PICK n \in Names, t \in Seconds : n = mounted.name /\ t = mounted.at
    BY <1>7 DEF Read, ReadInv, ReadTypes
  <2>2. ~overlapped /\ Distinct => Found(n) = t
    BY <1>7, <2>1 DEF Read, ReadInv, Answering, StillSo
  <2>3. /\ mounted' = mounted /\ said' = [said EXCEPT ![n][f] = @ \cup {Version(t, f)}]
        /\ UNCHANGED <<store, make, linked, overlapped>>
    BY <1>7, <2>1 DEF Read
  <2> QED BY <1>1, <2>2, <2>3, ReadingInv
<1>8. ASSUME NEW n \in Names, NEW f \in Files, LookUp(n, f) PROVE ReadInv'
  <2>1. PICK t \in Seconds : t = Found(n)
    BY <1>5, <1>8 DEF LookUp
  <2>2. /\ mounted' = [name |-> n, at |-> t]
        /\ said' = [said EXCEPT ![n][f] = @ \cup {Version(t, f)}]
        /\ UNCHANGED <<store, make, linked, overlapped>>
    BY <1>8, <2>1 DEF LookUp
  <2> QED BY <1>1, <2>1, <2>2, ReadingInv
<1> QED BY <1>3, <1>4, <1>6, <1>7, <1>8 DEF Next

LEMMA ReadInvariant == ASSUME LabelsApart PROVE Spec => []ReadInv
<1>1. ReadInv /\ [Next]_vars => ReadInv'
  BY NextRead
<1> QED BY <1>1, InitRead, PTL DEF Spec

\* However many creations die before they reach the index: as long as no two updates of
\* the index overlap, a snapshot whose creation returned stays in it, and every snapshot
\* that evidence names can be travelled to (_update_snapshot_index,
\* embed_snapshot_in_evidence).
THEOREM FinishedStaysListed == LabelsApart => (Spec => []FinishedIsListed)
<1> SUFFICES ASSUME LabelsApart PROVE Spec => []FinishedIsListed
  OBVIOUS
<1>1. ReadInv => FinishedIsListed
  BY DEF ReadInv, Listing, AllListed, FinishedIsListed
<1> QED BY <1>1, ReadInvariant, PTL

\* Same snapshot, same query, same answer, for any number of snapshots and questions: if
\* no two updates overlapped, no two creations shared a second and no label is a timestamp
\* (mount_snapshot, read_file_from_snapshot).
THEOREM AnswersStay == LabelsApart => (Spec => []SameAnswers)
<1> SUFFICES ASSUME LabelsApart PROVE Spec => []SameAnswers
  OBVIOUS
<1>1. ReadInv => SameAnswers
  <2> SUFFICES ASSUME ReadInv, ~overlapped, Distinct, NEW n \in Names, NEW f \in Files
               PROVE  Cardinality(said[n][f]) <= 1
    BY DEF SameAnswers
  <2>1. said[n][f] \in SUBSET {Version(Found(n), f)}
    BY DEF ReadInv, Answering, StillSo
  <2>2. PICK v : v = Version(Found(n), f)
    OBVIOUS
  <2>3. IsFiniteSet({v}) /\ Cardinality({v}) = 1
    BY FS_Singleton
  <2>4. /\ said[n][f] \in SUBSET {v}
        /\ Cardinality(said[n][f]) <= Cardinality({v})
    BY <2>1, <2>2, <2>3, FS_Subset
  <2> QED BY <2>3, <2>4
<1> QED BY <1>1, ReadInvariant, PTL

=============================================================================
