----------------------------- MODULE Snapshots -----------------------------
(***************************************************************************)
(* Snapshots of the system's files and the time-travel reader              *)
(* (tools/snapshot_state.py, tools/time_travel_reader.py,                  *)
(* tools/snapshot_integration.py).  A creation makes the directory named   *)
(* by the second it begins in, copies the skills, the tools, the rules and *)
(* the vault's indexes one file after the other, writes the manifest, and  *)
(* at last adds an entry to the central index, which it reads and writes   *)
(* back without a lock.  Every file is written in place: it is emptied     *)
(* first, and a creation that is killed then leaves it cut.  A creation    *)
(* that finds the index empty raises, and so does a reader.  The files     *)
(* that are copied are edited meanwhile; they are not deleted.             *)
(*                                                                         *)
(* A creation that dies may leave its directory half filled, but out of    *)
(* the index; or the index empty, and then for good; or, in a second it    *)
(* shares, cut files in the directory of a snapshot that is listed.        *)
(***************************************************************************)
EXTENDS Integers, Sequences, FiniteSets

CONSTANTS Creations,   \* calls of create_snapshot, by anyone
          Checkpoints, \* those that are made by create_checkpoint_snapshot
          Label,       \* the label each is given, or None
          N,           \* the files copied, numbered in the order of their copying
          Readable,    \* files the reader looks for under the name they are copied to
          Names,       \* labels and timestamps asked for
          MaxState,    \* bound: states of each file
          MaxSecond,   \* bound: seconds that pass
          None

Files == 1..N

ASSUME SnapshotAssumption ==
  /\ N \in Nat
  /\ Checkpoints \subseteq Creations
  /\ Readable \subseteq Files
  /\ MaxState \in [Files -> Nat] /\ MaxSecond \in Nat
  /\ None \notin Int /\ None \notin Names

VARIABLES now,       \* the second of the clock
          live,      \* the states each file went through, half written or whole, are
                     \* numbered: the one it is in, 0 while it does not exist
          dir,       \* of each timestamp: the states in its directory, 0 for none
          manifest,  \* the timestamps with a manifest
          cut,       \* of each timestamp: what was opened for writing, or written in
                     \* part, and is not written to its end; N + 1 is the manifest
          index,     \* the entries of the index
          emptied,   \* the index was opened for writing and is not written yet
          make,      \* what each creation holds
          current,   \* SnapshotIntegration.current_snapshot_id
          evidence,  \* the timestamps that evidence records name
          mounted,   \* the reader: the name asked for and the timestamp it stands for
          said,      \* history: what was read under a name, of each file
          overlapped \* history: the index changed between a reading and the writing back

store   == <<dir, manifest, cut, index, emptied>>
reading == <<mounted, said>>
linked  == <<current, evidence>>
vars    == <<now, live, store, make, linked, reading, overlapped>>

Seconds == 0..MaxSecond

NewMake == [pc |-> "waiting", next |-> 1, stamp |-> None, from |-> [f \in Files |-> 0],
            held |-> <<>>]

Init ==
  /\ now = 0
  /\ live \in [Files -> 0..1]
  /\ dir = [t \in Seconds |-> [f \in Files |-> 0]]
  /\ manifest = {}
  /\ cut = [t \in Seconds |-> {}]
  /\ index = <<>>
  /\ emptied = FALSE
  /\ make = [c \in Creations |-> NewMake]
  /\ current = None
  /\ evidence = {}
  /\ mounted = [name |-> None, at |-> None]
  /\ said = [n \in Names |-> [f \in Files |-> {}]]
  /\ overlapped = FALSE

At(c, pc) == make[c].pc = pc

-----------------------------------------------------------------------------
(* Creating a snapshot *)

\* generate_timestamp: the second, by its digits.
Stamp(second) == second

\* Mutant: a creation adds its entry before it copies anything.
BeginIndexing(c) ==
  /\ At(c, "waiting")
  /\ make' = [make EXCEPT ![c] = [@ EXCEPT !.pc = "reading", !.stamp = Stamp(now), !.from = live]]
  /\ UNCHANGED <<now, live, store, linked, reading, overlapped>>

\* mkdir(exist_ok): the directory may be that of another creation of the second.
Begin(c) ==
  /\ At(c, "waiting")
  /\ make' = [make EXCEPT ![c] = [@ EXCEPT !.pc = "copying", !.stamp = Stamp(now), !.from = live]]
  /\ UNCHANGED <<now, live, store, linked, reading, overlapped>>

\* A source that does not exist is left out, and what the directory has of it stays.
SkipFile(c) ==
  /\ At(c, "copying")
  /\ make[c].next \in Files
  /\ live[make[c].next] = 0
  /\ make' = [make EXCEPT ![c].next = @ + 1]
  /\ UNCHANGED <<now, live, store, linked, reading, overlapped>>

\* copytree and copy2 overwrite: the destination is opened, and is empty.
OpenFile(c) ==
  /\ At(c, "copying")
  /\ make[c].next \in Files
  /\ live[make[c].next] # 0
  /\ cut' = [cut EXCEPT ![make[c].stamp] = @ \cup {make[c].next}]
  /\ make' = [make EXCEPT ![c].pc = "filling"]
  /\ UNCHANGED <<now, live, dir, manifest, index, emptied, linked, reading, overlapped>>

CopyFile(c) ==
  LET f == make[c].next
      t == make[c].stamp
  IN  /\ At(c, "filling")
      /\ dir' = [dir EXCEPT ![t][f] = live[f]]
      /\ cut' = [cut EXCEPT ![t] = @ \ {f}]
      /\ make' = [make EXCEPT ![c] = [@ EXCEPT !.pc = "copying", !.next = f + 1]]
      /\ UNCHANGED <<now, live, manifest, index, emptied, linked, reading, overlapped>>

OpenManifest(c) ==
  /\ At(c, "copying")
  /\ make[c].next \notin Files
  /\ cut' = [cut EXCEPT ![make[c].stamp] = @ \cup {make[c].next}]
  /\ make' = [make EXCEPT ![c].pc = "noting"]
  /\ UNCHANGED <<now, live, dir, manifest, index, emptied, linked, reading, overlapped>>

WriteManifest(c) ==
  /\ At(c, "noting")
  /\ manifest' = manifest \cup {make[c].stamp}
  /\ cut' = [cut EXCEPT ![make[c].stamp] = @ \ {make[c].next}]
  /\ make' = [make EXCEPT ![c].pc = "reading"]
  /\ UNCHANGED <<now, live, dir, index, emptied, linked, reading, overlapped>>

\* _update_snapshot_index
ReadIndex(c) ==
  /\ At(c, "reading")
  /\ ~emptied
  /\ make' = [make EXCEPT ![c] = [@ EXCEPT !.pc = "opening", !.held = index]]
  /\ UNCHANGED <<now, live, store, linked, reading, overlapped>>

ReadIndexRaises(c) ==
  /\ At(c, "reading")
  /\ emptied
  /\ make' = [make EXCEPT ![c].pc = "raised"]
  /\ UNCHANGED <<now, live, store, linked, reading, overlapped>>

OpenIndex(c) ==
  /\ At(c, "opening")
  /\ emptied' = TRUE
  /\ overlapped' = (overlapped \/ emptied \/ index # make[c].held)
  /\ make' = [make EXCEPT ![c].pc = "writing"]
  /\ UNCHANGED <<now, live, dir, manifest, cut, index, linked, reading>>

Entry(c) == [timestamp |-> make[c].stamp, label |-> Label[c]]

\* Mutant: the index holds the newest snapshot only.
WriteIndexNew(c) ==
  /\ At(c, "writing")
  /\ index' = <<Entry(c)>>
  /\ emptied' = FALSE
  /\ make' = [make EXCEPT ![c] = [@ EXCEPT !.pc = "done", !.held = <<>>]]
  /\ current' = IF c \in Checkpoints THEN make[c].stamp ELSE current
  /\ overlapped' = (overlapped \/ index # make[c].held)
  /\ UNCHANGED <<now, live, dir, manifest, cut, evidence, reading>>

\* What was read is written back with the entry.  create_checkpoint_snapshot takes the
\* timestamp of a creation that returned.
WriteIndex(c) ==
  /\ At(c, "writing")
  /\ index' = Append(make[c].held, Entry(c))
  /\ emptied' = FALSE
  /\ make' = [make EXCEPT ![c] = [@ EXCEPT !.pc = "done", !.held = <<>>]]
  /\ current' = IF c \in Checkpoints THEN make[c].stamp ELSE current
  /\ overlapped' = (overlapped \/ index # make[c].held)
  /\ UNCHANGED <<now, live, dir, manifest, cut, evidence, reading>>

\* The process of a creation ends, wherever it is: also when it has written a part of the
\* file it has open over what another creation wrote there.
Die(c) ==
  LET t == make[c].stamp
  IN  /\ make[c].pc \in {"copying", "filling", "noting", "reading", "opening", "writing"}
      /\ make' = [make EXCEPT ![c] = [@ EXCEPT !.pc = "dead", !.held = <<>>]]
      /\ \/ cut' = cut
         \/ make[c].pc \in {"filling", "noting"} /\ cut' = [cut EXCEPT ![t] = @ \cup {make[c].next}]
      /\ UNCHANGED <<now, live, dir, manifest, index, emptied, linked, reading, overlapped>>

\* embed_snapshot_in_evidence
Embed ==
  /\ current # None
  /\ evidence' = evidence \cup {current}
  /\ UNCHANGED <<now, live, store, make, current, reading, overlapped>>

-----------------------------------------------------------------------------
(* Reading *)

Listed(t) == \E i \in DOMAIN index : index[i].timestamp = t

Labelled(n) == {i \in DOMAIN index : index[i].label = n}

\* Mutant: the last entry with a label counts.
FoundLast(n) ==
  IF Listed(n) THEN n
  ELSE IF Labelled(n) = {} THEN None
  ELSE index[CHOOSE i \in Labelled(n) : \A j \in Labelled(n) : j <= i].timestamp

\* mount_snapshot: a timestamp first, then the first entry with the label.
Found(n) ==
  IF Listed(n) THEN n
  ELSE IF Labelled(n) = {} THEN None
  ELSE index[CHOOSE i \in Labelled(n) : \A j \in Labelled(n) : i <= j].timestamp

\* What is not found leaves the mounted snapshot as it is; an emptied index raises.
Mount(n) ==
  /\ ~emptied
  /\ mounted' = IF Found(n) = None THEN mounted ELSE [name |-> n, at |-> Found(n)]
  /\ UNCHANGED <<now, live, store, make, linked, said, overlapped>>

\* A file copied under a name other than the one looked for is never found; of one that is
\* cut a part is read.
Version(t, f) ==
  CASE f \notin Readable                  -> 0
    [] f \in Readable /\ f \in cut[t]     -> -1
    [] f \in Readable /\ f \notin cut[t]  -> dir[t][f]

\* read_file_from_snapshot, read_skill, read_governance_rule, query_fact.
Read(f) ==
  /\ mounted.at # None
  /\ said' = [said EXCEPT ![mounted.name][f] = @ \cup {Version(mounted.at, f)}]
  /\ UNCHANGED <<now, live, store, make, linked, mounted, overlapped>>

\* time_travel_fact_lookup, read_skill_from_snapshot, read_governance_from_snapshot: the
\* snapshot is mounted and read; one that is not found is not answered for.
LookUp(n, f) ==
  /\ ~emptied
  /\ Found(n) # None
  /\ mounted' = [name |-> n, at |-> Found(n)]
  /\ said' = [said EXCEPT ![n][f] = @ \cup {Version(Found(n), f)}]
  /\ UNCHANGED <<now, live, store, make, linked, overlapped>>

-----------------------------------------------------------------------------
(* The surroundings *)

Edit(f) ==
  /\ live[f] < MaxState[f]
  /\ live' = [live EXCEPT ![f] = @ + 1]
  /\ UNCHANGED <<now, store, make, linked, reading, overlapped>>

Tick ==
  /\ now < MaxSecond
  /\ now' = now + 1
  /\ UNCHANGED <<live, store, make, linked, reading, overlapped>>

CreationStep(c) ==
  \/ Begin(c) \/ SkipFile(c) \/ OpenFile(c) \/ CopyFile(c)
  \/ OpenManifest(c) \/ WriteManifest(c)
  \/ ReadIndex(c) \/ ReadIndexRaises(c) \/ OpenIndex(c) \/ WriteIndex(c)
  \/ Die(c)

Next ==
  \/ \E c \in Creations : CreationStep(c)
  \/ Embed
  \/ \E n \in Names : Mount(n)
  \/ \E n \in Names, f \in Files : LookUp(n, f)
  \/ \E f \in Files : Read(f) \/ Edit(f)
  \/ Tick

Spec == Init /\ [][Next]_vars

-----------------------------------------------------------------------------
(* Properties *)

\* A label is none of the timestamps: mount_snapshot takes a name for a timestamp first.
LabelsApart == \A c \in Creations : Label[c] \notin Seconds

\* Creations that began in different seconds.
Distinct == \A c, d \in Creations : c # d /\ make[c].stamp # None => make[c].stamp # make[d].stamp

\* Every snapshot of the index has its manifest, and of every file the state it was in at
\* some moment since a creation of that timestamp began, or a later one.  A file of it, or
\* its manifest, is cut only where another creation of the same second is writing it or was
\* killed at it: the creation that is listed leaves none (create_snapshot: the index is
\* written last).
IndexedIsComplete ==
  \A i \in DOMAIN index :
    LET t == index[i].timestamp
    IN  /\ t \in manifest
        /\ \E c \in Creations :
             make[c].stamp = t /\ \A f \in Files : dir[t][f] >= make[c].from[f]
        /\ \A f \in cut[t] : \E d \in Creations :
             /\ make[d].stamp = t /\ make[d].next = f
             /\ make[d].pc \in {"filling", "noting", "dead"}

\* A snapshot whose creation returned is listed, and so is one that evidence names, if no
\* two updates of the index overlapped and none died in the middle of writing it
\* (_update_snapshot_index, embed_snapshot_in_evidence: "allows_time_travel").
FinishedIsListed ==
  ~overlapped /\ ~emptied =>
    /\ \A c \in Creations : At(c, "done") => Listed(make[c].stamp)
    /\ \A t \in evidence : Listed(t)

\* "Same snapshot + same query -> same answer, always" (SNAPSHOT_SYSTEM.md), by
\* timestamp as by label, however long ago the first answer was: if no two updates of the
\* index overlapped and no two creations shared a second.
SameAnswers ==
  ~overlapped /\ Distinct =>
    \A n \in Names, f \in Files : Cardinality(said[n][f]) <= 1

=============================================================================
