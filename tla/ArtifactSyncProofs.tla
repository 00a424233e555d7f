------------------------- MODULE ArtifactSyncProofs -------------------------
(***************************************************************************)
(* Proofs about the synchronisation of the generated artifacts (module     *)
(* ArtifactSync): for any sources, any paths of users and any number of    *)
(* runs and edits, a run that ends well leaves what its sources render to, *)
(* one that is refused has written nothing, no file of a user is lost,     *)
(* agents are accepted if they form a graph of delegation and else not,    *)
(* and the rules that are rendered let them delegate along this graph.     *)
(***************************************************************************)
EXTENDS ArtifactSync, InductionFacts

-----------------------------------------------------------------------------
(* The inductive invariant *)

Expected(p) == p \in DOMAIN Files(p[1], run.source)
Content(p) == Files(p[1], run.source)[p]

\* The runtimes the run has to do, and those whose changes it has begun to make.
Requested == Range(run.names)
Begun == Requested \ Range(run.left)

Writing == pc \in {"write", "fill"}

\* Before the plan is made nothing is written, and only a run whose sources load goes on.
Stages ==
  /\ pc = "plan" => run.left = run.names /\ todo = {} /\ written = {}
  /\ pc \in {"plan", "write", "fill"} =>
       run.names # <<>> /\ Range(run.left) \subseteq Requested /\ run.source \in Loadable
  /\ Writing => run.mode = "write"
  /\ pc = "fill" => todo # {} /\ Upcoming(todo)[2] = "UPDATE"

\* A change is one of a runtime that was begun: an update of an expected file or
\* a deletion of a path that was planned to be deleted.
Changing ==
  Writing =>
    \A c \in todo :
      /\ c[1][1] \in Begun
      /\ c[2] = "UPDATE" => Expected(c[1])
      /\ c[2] = "DELETE" => c[1] \in run.stale

\* What is planned to be deleted is a path of a selected runtime that is not
\* expected, and no file of a user but a prompt, or one put there since.
Deleting ==
  Writing =>
    \A p \in run.stale :
      /\ p[1] \in Requested
      /\ ~Expected(p)
      /\ disk[p] = User => \/ p[1] = "opencode" /\ p[2] = "agent"
                           \/ p \in touched

\* When no user interferes: the selected runtimes hold no link and the files to
\* delete are still there.
Undisturbed ==
  Writing /\ touched = {} =>
    /\ \A p \in Paths : p[1] \in Requested => disk[p] # Link
    /\ \A c \in todo : c[2] = "DELETE" => disk[c[1]] # Absent

\* Then what is obsolete is planned to be deleted; of a runtime that was begun, a
\* file that is not current and an obsolete one are among the changes to make.
Progress ==
  Writing /\ touched = {} =>
    \A p \in Paths :
      /\ p[1] \in Requested /\ ~Expected(p) /\ Obsolete(p, disk[p]) => p \in run.stale
      /\ p[1] \in Begun =>
           IF Expected(p) THEN disk[p] = Content(p) \/ <<p, "UPDATE">> \in todo
           ELSE Obsolete(p, disk[p]) => <<p, "DELETE">> \in todo

SyncInvariant ==
  /\ TypeOK /\ Stages /\ Changing /\ Deleting /\ Undisturbed /\ Progress
  /\ SyncedIsCurrent /\ FailureWritesNothing

-----------------------------------------------------------------------------
(* What is rendered *)

LEMMA SelectionFacts ==
  /\ Range(Runtimes) = {"opencode", "codex"}
  /\ Range(<<>>) = {}
  /\ \A names \in Selections : names # <<>> /\ Range(names) \subseteq {"opencode", "codex"}
  /\ \A names \in Selections :
       /\ Tail(names) \in Selections \cup {<<>>}
       /\ Head(names) \in Range(names)
       /\ Range(Tail(names)) = Range(names) \ {Head(names)}
PROOF
  <1>1. Range(<<>>) = {}
    BY DEF Range
  <1>2. Range(<<"opencode">>) = {"opencode"} /\ Range(<<"codex">>) = {"codex"}
    BY DEF Range
  <1>3. Range(Runtimes) = {"opencode", "codex"}
    BY DEF Range, Runtimes
  <1>4. /\ Tail(<<"opencode">>) = <<>> /\ Tail(<<"codex">>) = <<>>
        /\ Tail(Runtimes) = <<"codex">>
        /\ Head(<<"opencode">>) = "opencode" /\ Head(<<"codex">>) = "codex"
        /\ Head(Runtimes) = "opencode"
    BY DEF Runtimes
  <1>5. <<"opencode">> # <<>> /\ <<"codex">> # <<>> /\ Runtimes # <<>>
    BY DEF Runtimes
  <1> HIDE DEF Runtimes
  <1> QED
    BY <1>1, <1>2, <1>3, <1>4, <1>5 DEF Selections

\* An expected file is one of its runtime, and its content one that the notice marks.
LEMMA FilesFacts ==
  ASSUME NEW rt \in {"opencode", "codex"}, NEW s \in DOMAIN Sources,
         NEW p \in DOMAIN Files(rt, s)
  PROVE  /\ p[1] = rt
         /\ p \in Paths
         /\ Files(rt, s)[p][1] = "generated"
         /\ Files(rt, s)[p] \in ContentsOf[p]
PROOF
  <1>1. Files(rt, s) = Rendered(rt, Sources[s])
    BY SelectionFacts DEF Files, RenderedBy
  <1>2. p[1] = rt /\ Files(rt, s)[p] = Generated(Text(Sources[s], p))
    <2> HIDE DEF Files
    <2> DEFINE paths == {<<rt, "agent", n>> : n \in Range(Sources[s].names)}
                          \cup {<<rt, "skill", k>> : k \in DOMAIN Sources[s].skills}
                          \cup {<<rt, "report", "">>}
    <2>1. Files(rt, s) = [q \in paths |-> Generated(Text(Sources[s], q))]
      BY <1>1 DEF Rendered
    <2>2. ASSUME NEW q \in paths PROVE q[1] = rt
      <3>1. \/ \E n : q = <<rt, "agent", n>>
            \/ \E k : q = <<rt, "skill", k>>
            \/ q = <<rt, "report", "">>
        OBVIOUS
      <3>2. \A n : <<rt, "agent", n>>[1] = rt /\ <<rt, "skill", n>>[1] = rt
        OBVIOUS
      <3>3. <<rt, "report", "">>[1] = rt
        OBVIOUS
      <3> QED
        BY <3>1, <3>2, <3>3, Zenon
    <2> HIDE DEF paths
    <2> QED
      BY <2>1, <2>2
  <1>3. p \in Paths
    <2>1. rt = Runtimes[1] \/ rt = Runtimes[2]
      BY DEF Runtimes
    <2> QED
      BY <2>1 DEF Paths
  <1>4. Files(rt, s)[p] \in ContentsOf[p]
    BY <1>2, <1>3 DEF ContentsOf
  <1> QED
    BY <1>2, <1>3, <1>4 DEF Generated

LEMMA UserContents ==
  /\ UserPaths \subseteq Paths
  /\ \A p \in Paths : {Absent, User, Link, Partial} \subseteq ContentsOf[p]
PROOF
  <1>1. UserPaths \subseteq Paths
    BY DEF Paths
  <1> QED
    BY <1>1 DEF ContentsOf

LEMMA UpcomingFacts ==
  ASSUME NEW changes \in SUBSET (Paths \X {"UPDATE", "DELETE"}), changes # {}
  PROVE  /\ Upcoming(changes) \in changes
         /\ Upcoming(changes)[1] \in Paths
         /\ Upcoming(changes) = <<Upcoming(changes)[1], Upcoming(changes)[2]>>
         /\ Upcoming(changes)[2] \in {"UPDATE", "DELETE"}
PROOF
  <1>1. \E c \in changes : c[2] = "UPDATE" \/ \A d \in changes : d[2] = "DELETE"
    OBVIOUS
  <1>2. Upcoming(changes) \in changes
    BY <1>1 DEF Upcoming
  <1> QED
    BY <1>2

-----------------------------------------------------------------------------
(* Types *)

LEMMA TypeStep == TypeOK /\ Stages /\ Changing /\ [Next]_vars => TypeOK'
PROOF
  <1> SUFFICES ASSUME TypeOK, Stages, Changing, [Next]_vars
               PROVE  TypeOK'
    OBVIOUS
  <1> USE SelectionFacts
  <1>1. ASSUME NEW names \in Selections, NEW mode \in RunModes, Begin(names, mode)
        PROVE  TypeOK'
    BY <1>1 DEF TypeOK, Begin, Finish
  <1>2. CASE Plan
    <2>1. UNION {Stale(rt, run.source) : rt \in Range(Planned)} \subseteq Paths
      BY DEF Stale
    <2>2. run' \in [names : Selections \cup {<<>>}, mode : RunModes, source : DOMAIN Sources,
                    left : Selections \cup {<<>>}, stale : SUBSET Paths]
      BY <1>2, <2>1 DEF TypeOK, Plan
    <2> QED
      BY <1>2, <2>2 DEF TypeOK, Plan, Finish
  <1>3. CASE Write
    <2>1. CASE run.left # <<>>
      <3>1. run.left \in Selections /\ Tail(run.left) \in Selections \cup {<<>>}
        BY <2>1 DEF TypeOK
      <3>2. Head(run.left) \in {"opencode", "codex"}
        BY <3>1
      <3>3. Changes(Files(Head(run.left), run.source),
                    {p \in run.stale : p[1] = Head(run.left)})
              \subseteq Paths \X {"UPDATE", "DELETE"}
        BY <3>2, FilesFacts DEF Changes, All, TypeOK
      <3>4. \/ run' = run /\ todo' = todo
            \/ /\ run' = [run EXCEPT !.left = Tail(@)]
               /\ todo' \subseteq Paths \X {"UPDATE", "DELETE"}
        BY <1>3, <2>1, <3>3 DEF Write
      <3>5. run' \in [names : Selections \cup {<<>>}, mode : RunModes, source : DOMAIN Sources,
                      left : Selections \cup {<<>>}, stale : SUBSET Paths]
        BY <3>1, <3>4 DEF TypeOK
      <3>6. pc' \in {"write", "done"} /\ status' \in 0..2
        BY <1>3, <2>1 DEF TypeOK, Write, Finish
      <3> QED
        BY <1>3, <3>4, <3>5, <3>6 DEF TypeOK, Write
    <2> QED
      BY <1>3, <2>1 DEF TypeOK, Write, Finish
  <1>4. CASE Open
    BY <1>4, UpcomingFacts, UserContents DEF TypeOK, Open, Becomes, Target
  <1>5. CASE Fill
    <2>1. Expected(Target) /\ Target \in Paths /\ Target[1] \in {"opencode", "codex"}
      BY <1>5, UpcomingFacts DEF TypeOK, Stages, Changing, Fill, Target, Writing, Begun, Requested
    <2>2. Files(Target[1], run.source)[Target] \in ContentsOf[Target]
      BY <2>1, FilesFacts DEF Expected, TypeOK
    <2> QED
      BY <1>5, <2>1, <2>2 DEF TypeOK, Fill, Becomes
  <1>6. CASE Delete
    BY <1>6, UpcomingFacts, UserContents DEF TypeOK, Delete, Finish, Target
  <1>7. CASE Fail \/ Crash
    BY <1>7 DEF TypeOK, Fail, Crash, Finish, runVars
  <1>8. ASSUME NEW s \in Editable, EditSource(s)
        PROVE  TypeOK'
    BY <1>8 DEF TypeOK, EditSource, Editable, runVars
  <1>9. ASSUME NEW p \in UserPaths, NEW content \in {User, Link, Absent}, EditFile(p, content)
        PROVE  TypeOK'
    BY <1>9, UserContents DEF TypeOK, EditFile, runVars
  <1>10. CASE UNCHANGED vars
    BY <1>10 DEF TypeOK, vars, runVars
  <1> QED
    BY <1>1, <1>2, <1>3, <1>4, <1>5, <1>6, <1>7, <1>8, <1>9, <1>10 DEF Next

LEMMA SyncInit == Init => SyncInvariant
  BY DEF Init, SyncInvariant, TypeOK, ContentsOf, Stages, Changing, Deleting, Undisturbed,
         Progress, SyncedIsCurrent, FailureWritesNothing, Writing, RunModes

-----------------------------------------------------------------------------
(* Steps *)

\* The change that is made next.
LEMMA TargetFacts ==
  ASSUME TypeOK, Changing, Writing, todo # {}
  PROVE  /\ Target \in Paths
         /\ <<Target, Upcoming(todo)[2]>> \in todo
         /\ Upcoming(todo) = <<Target, Upcoming(todo)[2]>>
         /\ Target[1] \in Begun
         /\ Upcoming(todo)[2] = "UPDATE" =>
              Expected(Target) /\ Content(Target)[1] = "generated"
         /\ Upcoming(todo)[2] = "DELETE" => Target \in run.stale
PROOF
  <1>1. /\ Target \in Paths
        /\ Upcoming(todo) \in todo
        /\ Upcoming(todo) = <<Target, Upcoming(todo)[2]>>
    BY UpcomingFacts DEF TypeOK, Target
  <1>2. /\ Target[1] \in Begun
        /\ Upcoming(todo)[2] = "UPDATE" => Expected(Target)
        /\ Upcoming(todo)[2] = "DELETE" => Target \in run.stale
    BY <1>1 DEF Changing, Target
  <1>3. Target[1] \in {"opencode", "codex"}
    BY <1>2, SelectionFacts DEF TypeOK, Begun, Requested
  <1>4. run.source \in DOMAIN Sources
    BY DEF TypeOK
  <1>5. Expected(Target) => Content(Target)[1] = "generated"
    BY <1>3, <1>4, FilesFacts DEF Expected, Content
  <1> QED
    BY <1>1, <1>2, <1>5

\* What goes to a path that holds a link goes somewhere else.
LEMMA BecomesFacts ==
  ASSUME TypeOK, NEW p \in Paths, NEW content, Becomes(p, content)
  PROVE  \A q \in Paths :
           disk'[q] = IF q = p /\ disk[q] # Link THEN content ELSE disk[q]
  BY DEF TypeOK, Becomes

LEMMA OtherContents ==
  /\ User # Link /\ User # Absent /\ User # Partial
  /\ Link # Absent /\ Link # Partial /\ Absent # Partial
  /\ \A c : c[1] = "generated" => c \notin {User, Link, Absent, Partial}
  /\ \A p : ~Obsolete(p, Absent)
  BY DEF User, Link, Absent, Partial, Obsolete

\* What is stale is there, is no expected file, and is no user's unless it is a prompt.
LEMMA StaleFacts ==
  ASSUME NEW rt \in {"opencode", "codex"}, NEW s \in DOMAIN Sources, NEW p \in Stale(rt, s)
  PROVE  /\ p \in Paths /\ p[1] = rt /\ p \notin DOMAIN Files(rt, s)
         /\ Obsolete(p, disk[p]) /\ disk[p] # Absent
         /\ disk[p] = User => p[1] = "opencode" /\ p[2] = "agent"
  BY OtherContents DEF Stale, Obsolete, User

\* The plan of a run that goes on, and what it found.
LEMMA PlanFacts ==
  ASSUME TypeOK, Stages, Plan
  PROVE  /\ \/ /\ pc' = "done" /\ status' # 0
            \/ /\ \A rt \in Requested : Valid(rt)
               /\ run' = [run EXCEPT !.stale = UNION {Stale(rt, run.source) : rt \in Requested}]
               /\ \/ /\ run.mode = "write" /\ pc' = "write"
                  \/ /\ run.mode # "write" /\ pc' = "done"
                     /\ \/ status' = 1
                        \/ /\ status' = 0
                           /\ run.mode = "check" => \A rt \in Requested : ~Drifts(rt)
         /\ pc' \in {"write", "done"}
  BY DEF TypeOK, Plan, Finish, Planned, Requested, RunModes
-----------------------------------------------------------------------------
(* Steps of the invariant *)

\* What is left to do, and what is begun, as runtimes are taken from the list.
LEMMA RunFacts ==
  ASSUME TypeOK, Stages, pc \in {"plan", "write", "fill"}
  PROVE  /\ run.names \in Selections
         /\ Requested \subseteq {"opencode", "codex"}
         /\ Begun \subseteq Requested
         /\ run.left # <<>> =>
              /\ Head(run.left) \in Requested
              /\ Head(run.left) \notin Begun
              /\ Range(Tail(run.left)) \subseteq Range(run.left)
              /\ Requested \ Range(Tail(run.left)) = Begun \cup {Head(run.left)}
         /\ run.left = <<>> => Begun = Requested
         /\ run.source \in DOMAIN Sources
PROOF
  <1>1. run.names \in Selections /\ run.left \in Selections \cup {<<>>}
        /\ run.source \in DOMAIN Sources
    BY DEF TypeOK, Stages
  <1>2. Range(run.left) \subseteq Requested
    BY DEF Stages
  <1> QED
    BY <1>1, <1>2, SelectionFacts DEF Begun, Requested

LEMMA StagesStep == TypeOK /\ Stages /\ [Next]_vars => Stages'
PROOF
  <1> SUFFICES ASSUME TypeOK, Stages, [Next]_vars
               PROVE  Stages'
    OBVIOUS
  <1>1. ASSUME NEW names \in Selections, NEW mode \in RunModes, Begin(names, mode)
        PROVE  Stages'
    BY <1>1, SelectionFacts DEF Stages, Begin, Finish, Writing, Requested
  <1>2. CASE Plan
    BY <1>2, PlanFacts DEF Plan, Stages, Writing, Requested, TypeOK
  <1>3. CASE Write
    <2>1. CASE run.left # <<>>
      <3>1. /\ run.names # <<>> /\ run.mode = "write" /\ run.source \in Loadable
            /\ Range(run.left) \subseteq Range(run.names)
            /\ Range(Tail(run.left)) \subseteq Range(run.left)
        BY <1>3, <2>1, RunFacts DEF Write, Stages, Writing, Requested
      <3>2. /\ run'.names = run.names /\ run'.mode = run.mode /\ run'.source = run.source
            /\ run'.left = run.left \/ run'.left = Tail(run.left)
            /\ pc' \in {"write", "done"}
        BY <1>3, <2>1 DEF Write, Finish, TypeOK
      <3> QED
        BY <3>1, <3>2 DEF Stages, Writing, Requested
    <2> QED
      BY <1>3, <2>1 DEF Stages, Write, Finish, Writing, Requested
  <1>4. CASE Open
    BY <1>4 DEF Stages, Open, Writing, Requested, Becomes
  <1>5. CASE Fill
    BY <1>5 DEF Stages, Fill, Writing, Requested, Becomes
  <1>6. CASE Delete
    BY <1>6 DEF Stages, Delete, Writing, Requested, Finish
  <1>7. CASE Fail \/ Crash
    BY <1>7 DEF Stages, Fail, Crash, Writing, Requested, Finish, runVars
  <1>8. ASSUME NEW s \in Editable, EditSource(s)
        PROVE  Stages'
    BY <1>8 DEF Stages, EditSource, Writing, Requested, runVars
  <1>9. ASSUME NEW p \in UserPaths, NEW content \in {User, Link, Absent}, EditFile(p, content)
        PROVE  Stages'
    BY <1>9 DEF Stages, EditFile, Writing, Requested, runVars
  <1>10. CASE UNCHANGED vars
    BY <1>10 DEF Stages, vars, Writing, Requested, runVars
  <1> QED
    BY <1>1, <1>2, <1>3, <1>4, <1>5, <1>6, <1>7, <1>8, <1>9, <1>10 DEF Next

\* The changes that Write takes up, for the runtime that is next.
LEMMA WriteFacts ==
  ASSUME TypeOK, Stages, Write
  PROVE  \/ /\ pc' = "done" /\ run' = run
            /\ \/ status' = 2 /\ \E rt \in Requested : ~Valid(rt)
               \/ status' = 0 /\ Begun = Requested
         \/ /\ pc' = "write"
            /\ run.left # <<>>
            /\ run' = [run EXCEPT !.left = Tail(@)]
            /\ Begun' = Begun \cup {Head(run.left)} /\ Requested' = Requested
            /\ todo' = Changes(Files(Head(run.left), run.source),
                               {p \in run.stale : p[1] = Head(run.left)})
PROOF
  <1>1. /\ run.left # <<>> =>
              /\ Head(run.left) \in Requested
              /\ Requested \ Range(Tail(run.left)) = Begun \cup {Head(run.left)}
        /\ run.left = <<>> => Begun = Requested
    BY RunFacts DEF Write
  <1>2. CASE run.left = <<>>
    BY <1>1, <1>2 DEF Write, Finish
  <1> DEFINE files == Files(Head(run.left), run.source)
             stale == {p \in run.stale : p[1] = Head(run.left)}
  <1>3. CASE run.left # <<>> /\ ~Unlinked(DOMAIN files \cup stale)
    <2>1. Head(run.left) \in {"opencode", "codex"} /\ run.source \in DOMAIN Sources
      BY <1>1, <1>3, RunFacts DEF Write
    <2>2. \A p \in DOMAIN files \cup stale : p \in Paths /\ p[1] = Head(run.left)
      BY <2>1, FilesFacts DEF TypeOK
    <2>3. ~Valid(Head(run.left))
      BY <1>3, <2>2 DEF Valid, Unlinked
    <2> QED
      BY <1>1, <1>3, <2>3 DEF Write, Finish
  <1>4. CASE run.left # <<>> /\ Unlinked(DOMAIN files \cup stale)
    <2>1. run' = [run EXCEPT !.left = Tail(@)]
      BY <1>4 DEF Write
    <2>2. run'.left = Tail(run.left) /\ run'.names = run.names
      BY <2>1 DEF TypeOK
    <2>3. Begun' = Begun \cup {Head(run.left)} /\ Requested' = Requested
      BY <1>1, <1>4, <2>2 DEF Begun, Requested
    <2> QED
      BY <1>4, <2>1, <2>3 DEF Write
  <1> QED
    BY <1>2, <1>3, <1>4

\* The users change neither the run nor its changes.
LEMMA UserFacts ==
  ASSUME TypeOK,
         \/ \E s \in Editable : EditSource(s)
         \/ \E p \in UserPaths, content \in {User, Link, Absent} : EditFile(p, content)
         \/ UNCHANGED vars
  PROVE  /\ UNCHANGED <<pc, run, todo, status, written, erred>>
         /\ touched \subseteq touched'
         /\ \/ UNCHANGED <<disk, touched>>
            \/ /\ edits' # edits /\ touched' # {}
               /\ \A p \in Paths : disk'[p] = disk[p] \/ p \in touched'
PROOF
  <1>1. ASSUME NEW p \in UserPaths, NEW content \in {User, Link, Absent}, EditFile(p, content)
        PROVE  /\ edits' # edits /\ touched' = touched \cup {p}
               /\ \A q \in Paths : disk'[q] = disk[q] \/ q = p
               /\ UNCHANGED <<pc, run, todo, status, written, erred>>
    BY <1>1 DEF TypeOK, EditFile, runVars
  <1> QED
    BY <1>1 DEF EditSource, vars, runVars

LEMMA ChangingStep == TypeOK /\ Stages /\ Changing /\ [Next]_vars => Changing'
PROOF
  <1> SUFFICES ASSUME TypeOK, Stages, Changing, [Next]_vars
               PROVE  Changing'
    OBVIOUS
  <1>1. ASSUME NEW names \in Selections, NEW mode \in RunModes, Begin(names, mode)
        PROVE  Changing'
    BY <1>1 DEF Changing, Begin, Finish, Writing
  <1>2. CASE Plan
    <2>1. todo = {} /\ todo' = {}
      BY <1>2 DEF Plan, Stages
    <2> QED
      BY <2>1 DEF Changing
  <1>3. CASE Write
    <2>1. CASE pc' = "write"
      <3> DEFINE rt == Head(run.left)
      <3>1. /\ rt \in Begun' /\ rt \in {"opencode", "codex"}
            /\ run'.source = run.source /\ run'.stale = run.stale
            /\ run.source \in DOMAIN Sources
            /\ todo' = Changes(Files(rt, run.source), {p \in run.stale : p[1] = rt})
        BY <1>3, <2>1, WriteFacts, RunFacts DEF Write, TypeOK
      <3>2. ASSUME NEW c \in todo'
            PROVE  /\ c[1][1] = rt
                   /\ c[2] = "UPDATE" => c[1] \in DOMAIN Files(rt, run.source)
                   /\ c[2] = "DELETE" => c[1] \in run.stale
        BY <3>1, <3>2, FilesFacts DEF Changes, All
      <3> HIDE DEF rt
      <3> QED
        BY <3>1, <3>2 DEF Changing, Expected
    <2> QED
      BY <1>3, <2>1, WriteFacts DEF Changing, Writing
  <1>4. CASE Open
    BY <1>4 DEF Changing, Open, Writing, Begun, Requested, Expected
  <1>5. CASE Fill
    BY <1>5 DEF Changing, Fill, Writing, Begun, Requested, Expected
  <1>6. CASE Delete
    BY <1>6 DEF Changing, Delete, Writing, Begun, Requested, Expected, Finish
  <1>7. CASE Fail \/ Crash
    BY <1>7 DEF Changing, Fail, Crash, Writing, Finish
  <1>8. CASE \/ \E s \in Editable : EditSource(s)
             \/ \E p \in UserPaths, content \in {User, Link, Absent} : EditFile(p, content)
             \/ UNCHANGED vars
    BY <1>8, UserFacts DEF Changing, Writing, Begun, Requested, Expected
  <1> QED
    BY <1>1, <1>2, <1>3, <1>4, <1>5, <1>6, <1>7, <1>8 DEF Next

LEMMA DeletingStep ==
  TypeOK /\ Stages /\ Changing /\ Deleting /\ [Next]_vars => Deleting'
PROOF
  <1> SUFFICES ASSUME TypeOK, Stages, Changing, Deleting, [Next]_vars
               PROVE  Deleting'
    OBVIOUS
  <1>1. ASSUME NEW names \in Selections, NEW mode \in RunModes, Begin(names, mode)
        PROVE  Deleting'
    BY <1>1 DEF Deleting, Begin, Finish, Writing
  <1>2. CASE Plan
    <2>1. CASE pc' = "write"
      <3>1. run' = [run EXCEPT !.stale = UNION {Stale(rt, run.source) : rt \in Requested}]
        BY <1>2, <2>1, PlanFacts
      <3>2. /\ run'.stale = UNION {Stale(rt, run.source) : rt \in Requested}
            /\ run'.source = run.source /\ run'.names = run.names
        BY <3>1 DEF TypeOK
      <3>3. Requested \subseteq {"opencode", "codex"} /\ run.source \in DOMAIN Sources
        BY <1>2, RunFacts DEF Plan
      <3>4. ASSUME NEW p \in run'.stale
            PROVE  /\ p[1] \in Requested /\ p \notin DOMAIN Files(p[1], run.source)
                   /\ disk[p] = User => p[1] = "opencode" /\ p[2] = "agent"
        <4>1. PICK rt \in Requested : p \in Stale(rt, run.source)
          BY <3>2, <3>4
        <4> QED
          BY <3>3, <4>1, StaleFacts
      <3>5. disk' = disk
        BY <1>2 DEF Plan
      <3> QED
        BY <3>2, <3>4, <3>5 DEF Deleting, Expected, Requested
    <2> QED
      BY <1>2, <2>1, PlanFacts DEF Deleting, Writing
  <1>3. CASE Write
    <2>1. run'.stale = run.stale /\ run'.names = run.names /\ run'.source = run.source
      BY <1>3, WriteFacts DEF TypeOK
    <2> QED
      BY <1>3, <2>1 DEF Deleting, Write, Writing, Requested, Expected
  <1>4. CASE Open \/ Fill
    <2>1. /\ UNCHANGED <<run, touched>> /\ Writing
          /\ \A p \in Paths : disk'[p] = User => disk[p] = User
      <3>1. Target \in Paths /\ (Fill => Content(Target)[1] = "generated")
        BY <1>4, TargetFacts DEF Open, Fill, Stages, Writing
      <3>2. CASE Open
        BY <3>1, <3>2, BecomesFacts, OtherContents DEF Open, Writing
      <3>3. CASE Fill
        <4>1. Becomes(Target, Content(Target))
          BY <3>3 DEF Fill, Content
        <4> QED
          BY <3>1, <3>3, <4>1, BecomesFacts, OtherContents DEF Fill, Writing
      <3> QED
        BY <1>4, <3>2, <3>3
    <2>2. run.stale \subseteq Paths
      BY DEF TypeOK
    <2> QED
      BY <2>1, <2>2 DEF Deleting, Writing, Requested, Expected
  <1>5. CASE Delete
    <2>1. Target \in Paths
      BY <1>5, TargetFacts DEF Delete, Writing
    <2>2. /\ UNCHANGED <<run, touched>> /\ Writing
          /\ \A p \in Paths : disk'[p] = User => disk[p] = User
      BY <1>5, <2>1, OtherContents DEF Delete, Writing, TypeOK
    <2>3. run.stale \subseteq Paths
      BY DEF TypeOK
    <2> QED
      BY <2>2, <2>3 DEF Deleting, Writing, Requested, Expected
  <1>6. CASE Fail \/ Crash
    BY <1>6 DEF Deleting, Fail, Crash, Writing, Finish
  <1>7. CASE \/ \E s \in Editable : EditSource(s)
             \/ \E p \in UserPaths, content \in {User, Link, Absent} : EditFile(p, content)
             \/ UNCHANGED vars
    <2>1. run.stale \subseteq Paths
      BY DEF TypeOK
    <2> QED
      BY <1>7, <2>1, UserFacts DEF Deleting, Writing, Requested, Expected
  <1> QED
    BY <1>1, <1>2, <1>3, <1>4, <1>5, <1>6, <1>7 DEF Next

LEMMA UndisturbedStep ==
  TypeOK /\ Stages /\ Changing /\ Deleting /\ Undisturbed /\ [Next]_vars => Undisturbed'
PROOF
  <1> SUFFICES ASSUME TypeOK, Stages, Changing, Deleting, Undisturbed, [Next]_vars
               PROVE  Undisturbed'
    OBVIOUS
  <1>1. ASSUME NEW names \in Selections, NEW mode \in RunModes, Begin(names, mode)
        PROVE  Undisturbed'
    BY <1>1 DEF Undisturbed, Begin, Finish, Writing
  <1>2. CASE Plan
    <2>1. CASE pc' = "write"
      <3>1. /\ run'.names = run.names
            /\ \A rt \in Requested : Valid(rt)
        BY <1>2, <2>1, PlanFacts DEF TypeOK
      <3>2. todo' = {} /\ disk' = disk
        BY <1>2 DEF Plan, Stages
      <3> QED
        BY <3>1, <3>2 DEF Undisturbed, Valid, Unlinked, Requested
    <2> QED
      BY <1>2, <2>1, PlanFacts DEF Undisturbed, Writing
  <1>3. CASE Write
    <2>1. CASE pc' = "write"
      <3>1. /\ Requested' = Requested /\ UNCHANGED <<disk, touched>>
            /\ todo' = Changes(Files(Head(run.left), run.source),
                               {p \in run.stale : p[1] = Head(run.left)})
        BY <1>3, <2>1, WriteFacts DEF Write
      <3>2. \A c \in todo' : c[2] = "DELETE" => disk[c[1]] # Absent
        BY <3>1 DEF Changes, All
      <3> QED
        BY <1>3, <3>1, <3>2 DEF Undisturbed, Writing, Write
    <2> QED
      BY <1>3, <2>1, WriteFacts DEF Undisturbed, Writing
  <1>4. CASE Open \/ Fill
    <2>1. /\ UNCHANGED <<run, touched>> /\ Writing /\ todo' \subseteq todo
          /\ \A p \in Paths : /\ disk'[p] = Link => disk[p] = Link
                              /\ disk'[p] = Absent => disk[p] = Absent
      <3>1. Target \in Paths /\ (Fill => Content(Target)[1] = "generated")
        BY <1>4, TargetFacts DEF Open, Fill, Stages, Writing
      <3>2. CASE Open
        BY <3>1, <3>2, BecomesFacts, OtherContents DEF Open, Writing
      <3>3. CASE Fill
        <4>1. Becomes(Target, Content(Target))
          BY <3>3 DEF Fill, Content
        <4> QED
          BY <3>1, <3>3, <4>1, BecomesFacts, OtherContents DEF Fill, Writing
      <3> QED
        BY <1>4, <3>2, <3>3
    <2>2. \A c \in todo : c[1] \in Paths
      BY DEF TypeOK
    <2> QED
      BY <2>1, <2>2 DEF Undisturbed, Writing, Requested
  <1>5. CASE Delete
    <2>1. CASE disk[Target] # Absent
      <3>1. Target \in Paths /\ Upcoming(todo) = <<Target, "DELETE">>
        BY <1>5, TargetFacts DEF Delete, Writing
      <3>2. /\ todo' = todo \ {<<Target, "DELETE">>} /\ UNCHANGED <<run, touched>> /\ Writing
            /\ \A p \in Paths : disk'[p] = IF p = Target THEN Absent ELSE disk[p]
        BY <1>5, <2>1, <3>1 DEF Delete, Writing, TypeOK
      <3>3. \A c \in todo : c[1] \in Paths /\ c = <<c[1], c[2]>>
        BY DEF TypeOK
      <3>4. \A c \in todo' : c[2] = "DELETE" => c \in todo /\ c[1] # Target
        BY <3>2, <3>3
      <3> QED
        BY <3>2, <3>3, <3>4, OtherContents DEF Undisturbed, Writing, Requested
    <2> QED
      BY <1>5, <2>1 DEF Delete, Finish, Undisturbed, Writing
  <1>6. CASE Fail \/ Crash
    BY <1>6 DEF Undisturbed, Fail, Crash, Writing, Finish
  <1>7. CASE \/ \E s \in Editable : EditSource(s)
             \/ \E p \in UserPaths, content \in {User, Link, Absent} : EditFile(p, content)
             \/ UNCHANGED vars
    BY <1>7, UserFacts DEF Undisturbed, Writing, Requested
  <1> QED
    BY <1>1, <1>2, <1>3, <1>4, <1>5, <1>6, <1>7 DEF Next

LEMMA ProgressStep ==
  /\ TypeOK /\ Stages /\ Changing /\ Deleting /\ Undisturbed /\ Progress
  /\ [Next]_vars
  => Progress'
PROOF
  <1> SUFFICES ASSUME TypeOK, Stages, Changing, Deleting, Undisturbed, Progress, [Next]_vars
               PROVE  Progress'
    OBVIOUS
  <1>1. ASSUME NEW names \in Selections, NEW mode \in RunModes, Begin(names, mode)
        PROVE  Progress'
    BY <1>1 DEF Progress, Begin, Finish, Writing
  <1>2. CASE Plan
    <2>1. CASE pc' = "write"
      <3>1. run' = [run EXCEPT !.stale = UNION {Stale(rt, run.source) : rt \in Requested}]
        BY <1>2, <2>1, PlanFacts
      <3>2. /\ run'.stale = UNION {Stale(rt, run.source) : rt \in Requested}
            /\ run'.source = run.source /\ run'.names = run.names /\ run'.left = run.left
        BY <3>1 DEF TypeOK
      <3>3. Begun' = {} /\ Requested' = Requested
        BY <1>2, <3>2 DEF Plan, Stages, Begun, Requested
      <3>4. \A p \in Paths : p[1] \in Requested /\ ~Expected(p) /\ Obsolete(p, disk[p])
                               => p \in run'.stale
        BY <3>2 DEF Stale, Expected
      <3>5. disk' = disk
        BY <1>2 DEF Plan
      <3> QED
        BY <3>2, <3>3, <3>4, <3>5 DEF Progress, Expected
    <2> QED
      BY <1>2, <2>1, PlanFacts DEF Progress, Writing
  <1>3. CASE Write
    <2>1. CASE pc' = "write"
      <3> DEFINE rt == Head(run.left)
      <3>1. /\ Requested' = Requested /\ Begun' = Begun \cup {rt}
            /\ UNCHANGED <<disk, touched>>
            /\ todo' = Changes(Files(rt, run.source), {p \in run.stale : p[1] = rt})
            /\ run'.stale = run.stale /\ run'.source = run.source
            /\ todo = {} /\ Writing
        BY <1>3, <2>1, WriteFacts DEF Write, TypeOK, Writing
      <3>2. rt \in Requested /\ rt \notin Begun
        BY <1>3, <2>1, WriteFacts, RunFacts DEF Write
      <3> HIDE DEF rt
      <3>3. ASSUME touched = {}, NEW p \in Paths, p[1] = rt
            PROVE  IF Expected(p) THEN disk[p] = Content(p) \/ <<p, "UPDATE">> \in todo'
                   ELSE Obsolete(p, disk[p]) => <<p, "DELETE">> \in todo'
        <4>1. CASE Expected(p)
          <5>1. disk[p] # Files(rt, run.source)[p] =>
                  <<p, "UPDATE">> \in All({q \in DOMAIN Files(rt, run.source) :
                                             disk[q] # Files(rt, run.source)[q]}, "UPDATE")
            BY <3>3, <4>1 DEF Expected, All
          <5> QED
            BY <3>1, <3>3, <4>1, <5>1 DEF Expected, Content, Changes
        <4>2. CASE ~Expected(p) /\ Obsolete(p, disk[p])
          <5>1. p \in run.stale /\ disk[p] # Absent
            BY <3>1, <3>2, <3>3, <4>2, OtherContents DEF Progress
          <5>2. <<p, "DELETE">> \in
                  All({q \in {r \in run.stale : r[1] = rt} : disk[q] # Absent}, "DELETE")
            BY <3>3, <5>1 DEF All
          <5> QED
            BY <3>1, <4>2, <5>2 DEF Changes
        <4> QED
          BY <4>1, <4>2
      <3>4. \A p \in Paths : (Expected(p)' <=> Expected(p)) /\ Content(p)' = Content(p)
        BY <3>1 DEF Expected, Content
      <3> QED
        BY <3>1, <3>3, <3>4 DEF Progress
    <2> QED
      BY <1>3, <2>1, WriteFacts DEF Progress, Writing
  <1>4. CASE Open
    <2>1. /\ Target \in Paths /\ Expected(Target) /\ <<Target, "UPDATE">> \in todo
      BY <1>4, TargetFacts DEF Open, Writing
    <2>2. /\ UNCHANGED <<run, touched, todo>> /\ Writing
          /\ \A p \in Paths : p # Target => disk'[p] = disk[p]
      BY <1>4, <2>1, BecomesFacts DEF Open, Writing
    <2>3. \A p \in Paths : (Expected(p)' <=> Expected(p)) /\ Content(p)' = Content(p)
      BY <2>2 DEF Expected, Content
    <2> QED
      BY <2>1, <2>2, <2>3 DEF Progress, Requested, Begun
  <1>5. CASE Fill
    <2>1. /\ Target \in Paths /\ Expected(Target) /\ Target[1] \in Begun
          /\ Upcoming(todo) = <<Target, "UPDATE">>
      BY <1>5, TargetFacts DEF Fill, Stages, Writing
    <2>2. Target[1] \in Requested
      BY <2>1 DEF Begun
    <2>3. Becomes(Target, Content(Target))
      BY <1>5 DEF Fill, Content
    <2>4. touched = {} => disk[Target] # Link
      BY <1>5, <2>1, <2>2 DEF Fill, Undisturbed, Writing
    <2>5. /\ UNCHANGED <<run, touched>> /\ Writing /\ todo' = todo \ {<<Target, "UPDATE">>}
          /\ \A p \in Paths : p # Target => disk'[p] = disk[p]
          /\ touched = {} => disk'[Target] = Content(Target)
      BY <1>5, <2>1, <2>3, <2>4, BecomesFacts DEF Fill, Writing
    <2>6. \A p \in Paths : (Expected(p)' <=> Expected(p)) /\ Content(p)' = Content(p)
      BY <2>5 DEF Expected, Content
    <2> QED
      BY <2>1, <2>5, <2>6 DEF Progress, Requested, Begun
  <1>6. CASE Delete
    <2>1. CASE disk[Target] # Absent
      <3>1. /\ Target \in Paths /\ Upcoming(todo) = <<Target, "DELETE">>
            /\ Target \in run.stale
        BY <1>6, TargetFacts DEF Delete, Writing
      <3>2. ~Expected(Target)
        BY <1>6, <3>1 DEF Delete, Deleting, Writing
      <3>3. /\ UNCHANGED <<run, touched>> /\ Writing /\ todo' = todo \ {<<Target, "DELETE">>}
            /\ \A p \in Paths : disk'[p] = IF p = Target THEN Absent ELSE disk[p]
        BY <1>6, <2>1, <3>1 DEF Delete, Writing, TypeOK
      <3>4. \A p \in Paths : (Expected(p)' <=> Expected(p)) /\ Content(p)' = Content(p)
        BY <3>3 DEF Expected, Content
      <3> QED
        BY <3>2, <3>3, <3>4, OtherContents DEF Progress, Requested, Begun
    <2> QED
      BY <1>6, <2>1 DEF Delete, Finish, Progress, Writing
  <1>7. CASE Fail \/ Crash
    BY <1>7 DEF Progress, Fail, Crash, Writing, Finish
  <1>8. CASE \/ \E s \in Editable : EditSource(s)
             \/ \E p \in UserPaths, content \in {User, Link, Absent} : EditFile(p, content)
             \/ UNCHANGED vars
    BY <1>8, UserFacts DEF Progress, Writing, Requested, Begun, Expected, Content
  <1> QED
    BY <1>1, <1>2, <1>3, <1>4, <1>5, <1>6, <1>7, <1>8 DEF Next

LEMMA CurrentStep ==
  /\ TypeOK /\ Stages /\ Progress /\ SyncedIsCurrent
  /\ [Next]_vars
  => SyncedIsCurrent'
PROOF
  <1> SUFFICES ASSUME TypeOK, Stages, Progress, SyncedIsCurrent, [Next]_vars
               PROVE  SyncedIsCurrent'
    OBVIOUS
  <1>1. ASSUME NEW names \in Selections, NEW mode \in RunModes, Begin(names, mode)
        PROVE  SyncedIsCurrent'
    BY <1>1 DEF SyncedIsCurrent, Begin, Finish
  <1>2. CASE Plan
    <2>1. CASE pc' = "done" /\ status' = 0 /\ run.mode = "check"
      <3>1. /\ \A rt \in Requested : ~Drifts(rt)
            /\ run'.names = run.names /\ run'.source = run.source
        BY <1>2, <2>1, PlanFacts DEF TypeOK
      <3>2. Requested \subseteq {"opencode", "codex"} /\ run.source \in DOMAIN Sources
        BY <1>2, RunFacts DEF Plan
      <3>3. ASSUME NEW rt \in Requested
            PROVE  /\ \A p \in DOMAIN Files(rt, run.source) :
                        disk[p] = Files(rt, run.source)[p]
                   /\ Stale(rt, run.source) = {}
        <4>1. /\ All({p \in DOMAIN Files(rt, run.source) :
                        disk[p] # Files(rt, run.source)[p]}, "UPDATE") = {}
              /\ All({p \in Stale(rt, run.source) : disk[p] # Absent}, "DELETE") = {}
          BY <3>1 DEF Drifts, Changes
        <4>2. \A p \in Stale(rt, run.source) : disk[p] # Absent
          BY <3>2, StaleFacts
        <4> QED
          BY <4>1, <4>2 DEF All
      <3>4. disk' = disk
        BY <1>2 DEF Plan
      <3> QED
        BY <3>1, <3>3, <3>4 DEF SyncedIsCurrent, Stale, Requested
    <2>2. CASE pc' = "done" /\ status' = 0 /\ run.mode # "check"
      <3>1. run'.mode = "dry-run"
        BY <1>2, <2>2, PlanFacts DEF TypeOK, RunModes
      <3> QED
        BY <3>1 DEF SyncedIsCurrent
    <2> QED
      BY <2>1, <2>2 DEF SyncedIsCurrent
  <1>3. CASE Write
    <2>1. CASE pc' = "done" /\ status' = 0 /\ touched = {}
      <3>1. Begun = Requested /\ run' = run /\ todo = {} /\ Writing /\ UNCHANGED disk
        BY <1>3, <2>1, WriteFacts, RunFacts DEF Write, Writing
      <3>2. Requested \subseteq {"opencode", "codex"} /\ run.source \in DOMAIN Sources
        BY <1>3, RunFacts DEF Write
      <3>3. ASSUME NEW p \in Paths, p[1] \in Requested
            PROVE  IF Expected(p) THEN disk[p] = Content(p) ELSE ~Obsolete(p, disk[p])
        BY <2>1, <3>1, <3>3 DEF Progress
      <3>4. ASSUME NEW rt \in Requested, NEW p \in DOMAIN Files(rt, run.source)
            PROVE  disk[p] = Files(rt, run.source)[p]
        BY <3>2, <3>3, FilesFacts DEF Expected, Content
      <3>5. ASSUME NEW rt \in Requested, NEW p \in Paths \ DOMAIN Files(rt, run.source),
                   p[1] = rt
            PROVE  ~Obsolete(p, disk[p])
        BY <3>3, <3>5 DEF Expected
      <3> QED
        BY <3>1, <3>4, <3>5 DEF SyncedIsCurrent, Requested
    <2> QED
      BY <1>3, <2>1 DEF SyncedIsCurrent, Write
  <1>4. CASE Open \/ Fill
    BY <1>4 DEF SyncedIsCurrent, Open, Fill
  <1>5. CASE Delete
    BY <1>5 DEF SyncedIsCurrent, Delete, Finish
  <1>6. CASE Fail \/ Crash
    BY <1>6 DEF SyncedIsCurrent, Fail, Crash, Finish
  <1>7. CASE \/ \E s \in Editable : EditSource(s)
             \/ \E p \in UserPaths, content \in {User, Link, Absent} : EditFile(p, content)
             \/ UNCHANGED vars
    <2>1. CASE UNCHANGED disk
      BY <1>7, <2>1, UserFacts DEF SyncedIsCurrent
    <2> QED
      BY <1>7, <2>1, UserFacts DEF SyncedIsCurrent
  <1> QED
    BY <1>1, <1>2, <1>3, <1>4, <1>5, <1>6, <1>7 DEF Next

LEMMA FailureStep ==
  /\ TypeOK /\ Stages /\ Changing /\ Undisturbed /\ FailureWritesNothing
  /\ [Next]_vars
  => FailureWritesNothing'
PROOF
  <1> SUFFICES ASSUME TypeOK, Stages, Changing, Undisturbed, FailureWritesNothing, [Next]_vars
               PROVE  FailureWritesNothing'
    OBVIOUS
  <1>1. ASSUME NEW names \in Selections, NEW mode \in RunModes, Begin(names, mode)
        PROVE  FailureWritesNothing'
    BY <1>1 DEF FailureWritesNothing, Begin
  <1>2. CASE Plan
    BY <1>2 DEF FailureWritesNothing, Plan, Stages
  <1>3. CASE Write
    <2>1. CASE pc' = "done" /\ status' # 0 /\ touched = {}
      <3>1. PICK rt \in Requested : ~Valid(rt)
        BY <1>3, <2>1, WriteFacts
      <3>2. PICK p \in Paths : p[1] \in Requested /\ disk[p] = Link
        BY <3>1 DEF Valid, Unlinked
      <3> QED
        BY <1>3, <2>1, <3>2 DEF Write, Undisturbed, Writing
    <2> QED
      BY <1>3, <2>1 DEF FailureWritesNothing, Write
  <1>4. CASE Open \/ Fill
    BY <1>4 DEF FailureWritesNothing, Open, Fill
  <1>5. CASE Delete
    <2>1. <<Target, "DELETE">> \in todo /\ Writing
      BY <1>5, TargetFacts DEF Delete, Writing
    <2>2. <<Target, "DELETE">>[1] = Target /\ <<Target, "DELETE">>[2] = "DELETE"
      OBVIOUS
    <2>3. touched = {} => disk[Target] # Absent
      BY <2>1, <2>2 DEF Undisturbed
    <2> QED
      BY <1>5, <2>3 DEF FailureWritesNothing, Delete
  <1>6. CASE Fail \/ Crash
    BY <1>6 DEF FailureWritesNothing, Fail, Crash
  <1>7. CASE \/ \E s \in Editable : EditSource(s)
             \/ \E p \in UserPaths, content \in {User, Link, Absent} : EditFile(p, content)
             \/ UNCHANGED vars
    BY <1>7, UserFacts DEF FailureWritesNothing
  <1> QED
    BY <1>1, <1>2, <1>3, <1>4, <1>5, <1>6, <1>7 DEF Next

LEMMA SyncInductive == Spec => []SyncInvariant
PROOF
  <1>1. SyncInvariant /\ [Next]_vars => SyncInvariant'
    BY TypeStep, StagesStep, ChangingStep, DeletingStep, UndisturbedStep, ProgressStep,
       CurrentStep, FailureStep DEF SyncInvariant
  <1> QED
    BY SyncInit, <1>1, PTL DEF Spec

\* Every path holds, for any sources and after any edits, errors and deaths, what some
\* source renders to there, what a user put there or a file cut off.
THEOREM SyncTypeCorrect == Spec => []TypeOK
  BY SyncInductive, PTL DEF SyncInvariant

\* A synchronisation or a check that nobody disturbed (main of scripts/sync-runtime,
\* RuntimePlan.changes and write) ends with 0 only when the files of the selected runtimes are
\* what the sources render to and no obsolete one that can be told is left.
THEOREM SyncLeavesCurrentFiles == Spec => []SyncedIsCurrent
  BY SyncInductive, PTL DEF SyncInvariant

\* A run that is refused, and that neither an error nor a user disturbed, has
\* written nothing: every runtime is planned and validated before the first is written.
THEOREM RefusedRunWritesNothing == Spec => []FailureWritesNothing
  BY SyncInductive, PTL DEF SyncInvariant

\* No run overwrites or deletes a user's file at a path that it does not render, but
\* the prompts of OpenCode and files put there after the plan was made.
THEOREM SyncKeepsUserFiles == Spec => UserFilesKept
PROOF
  <1>1. SyncInvariant /\ [Next]_vars =>
          [\A p \in Paths :
             disk[p] = User /\ disk'[p] # User /\ edits' = edits =>
               \/ p \in DOMAIN Files(p[1], run.source)
               \/ p[1] = "opencode" /\ p[2] = "agent"
               \/ p \in touched]_vars
    <2> SUFFICES ASSUME SyncInvariant, [Next]_vars, NEW p \in Paths,
                        disk[p] = User, disk'[p] # User, edits' = edits
                 PROVE  \/ Expected(p)
                        \/ p[1] = "opencode" /\ p[2] = "agent"
                        \/ p \in touched
      BY DEF Expected
    <2> USE DEF SyncInvariant
    <2>1. CASE Open \/ Fill
      <3>1. Expected(Target)
        BY <2>1, TargetFacts DEF Open, Fill, Stages, Writing
      <3>2. p = Target
        BY <2>1 DEF Open, Fill, Becomes, TypeOK
      <3> QED
        BY <3>1, <3>2
    <2>2. CASE Delete
      <3>1. Target \in run.stale
        BY <2>2, TargetFacts DEF Delete, Writing
      <3>2. p = Target
        BY <2>2 DEF Delete, TypeOK
      <3> QED
        BY <2>2, <3>1, <3>2 DEF Deleting, Writing, Delete
    <2>3. CASE \/ \E s \in Editable : EditSource(s)
               \/ \E q \in UserPaths, content \in {User, Link, Absent} : EditFile(q, content)
               \/ UNCHANGED vars
      BY <2>3, UserFacts
    <2>4. CASE \/ \E names \in Selections, mode \in RunModes : Begin(names, mode)
               \/ Plan \/ Write \/ Fail \/ Crash
      BY <2>4 DEF Begin, Plan, Write, Fail, Crash
    <2> QED
      BY <2>1, <2>2, <2>3, <2>4 DEF Next
  <1> QED
    BY SyncInductive, <1>1, PTL DEF Spec, UserFilesKept

-----------------------------------------------------------------------------
(* The graph of delegation *)

\* The agents that those of a set delegate to.
Below(specs, set) == UNION {Children(specs, n) : n \in set}

\* The levels of a graph, as deep as its validation looks.
LEMMA LevelFacts ==
  ASSUME NEW specs, NEW root
  PROVE  /\ Level(specs, root, 0) = {root}
         /\ Level(specs, root, 1) = Below(specs, {root})
         /\ Level(specs, root, 2) = Below(specs, Below(specs, {root}))
         /\ Level(specs, root, 3) = Below(specs, Below(specs, Below(specs, {root})))
PROOF
  <1> DEFINE L1 == Below(specs, {root})
             L2 == Below(specs, L1)
             L3 == Below(specs, L2)
             is(depth, level) ==
               level = [d \in 0..depth |->
                          IF d = 0 THEN {root}
                          ELSE UNION {Children(specs, n) : n \in level[d - 1]}]
             chosen(depth) == CHOOSE level : is(depth, level)
             made(depth) == [d \in 0..depth |->
                               IF d = 0 THEN {root}
                               ELSE IF d = 1 THEN L1 ELSE IF d = 2 THEN L2 ELSE L3]
  <1>1. ASSUME NEW depth \in 0..3
        PROVE  is(depth, made(depth))
    <2> DEFINE m == made(depth)
    <2>1. \A d \in 0..depth : m[d] = IF d = 0 THEN {root} ELSE Below(specs, m[d - 1])
      <3> HIDE DEF L1, L2, L3
      <3>1. L1 = Below(specs, {root}) /\ L2 = Below(specs, L1) /\ L3 = Below(specs, L2)
        BY DEF L1, L2, L3
      <3> QED
        BY <3>1, <1>1
    <2>2. m = [d \in 0..depth |-> m[d]]
      OBVIOUS
    <2>3. is(depth, m)
      <3> HIDE DEF m
      <3>1. m = [d \in 0..depth |-> IF d = 0 THEN {root} ELSE Below(specs, m[d - 1])]
        BY <2>1, <2>2
      <3> QED
        BY <3>1 DEF Below
    <2> QED
      BY <2>3
  <1>2. ASSUME NEW depth \in 0..3
        PROVE  is(depth, chosen(depth)) /\ Level(specs, root, depth) = chosen(depth)[depth]
    <2>1. is(depth, chosen(depth))
      <3> HIDE DEF is, made
      <3> QED
        BY <1>1, <1>2
    <2> QED
      BY <2>1 DEF Level
  <1>3. ASSUME NEW depth \in 0..3, NEW d \in 0..depth
        PROVE  chosen(depth)[d] =
                 IF d = 0 THEN {root} ELSE Below(specs, chosen(depth)[d - 1])
    <2> DEFINE c == chosen(depth)
    <2> SUFFICES c[d] = IF d = 0 THEN {root} ELSE Below(specs, c[d - 1])
      OBVIOUS
    <2>1. c = [e \in 0..depth |->
                 IF e = 0 THEN {root} ELSE UNION {Children(specs, n) : n \in c[e - 1]}]
      BY <1>2
    <2> HIDE DEF c
    <2> QED
      BY <2>1, <1>3 DEF Below
  <1> HIDE DEF chosen, is, made
  <1>4. /\ chosen(0)[0] = {root} /\ chosen(1)[0] = {root}
        /\ chosen(2)[0] = {root} /\ chosen(3)[0] = {root}
    BY <1>3
  <1>5. chosen(1)[1] = L1 /\ chosen(2)[1] = L1 /\ chosen(3)[1] = L1
    BY <1>3, <1>4
  <1>6. chosen(2)[2] = L2 /\ chosen(3)[2] = L2
    BY <1>3, <1>5
  <1>7. chosen(3)[3] = L3
    BY <1>3, <1>6
  <1> QED
    BY <1>2, <1>4, <1>5, <1>6, <1>7

LEMMA NamesFinite ==
  ASSUME NEW s, s \in Seq(Range(s))
  PROVE  IsFiniteSet(Range(s))
<1>1. Len(s) \in Nat /\ s \in [1..Len(s) -> Range(s)]
  OBVIOUS
<1>2. s \in Surjection(1..Len(s), Range(s))
  BY <1>1 DEF Surjection, Range
<1>3. QED
  BY <1>1, <1>2, FS_Interval, FS_Surjection

\* The agents that are loaded keep the mode and the parents of their sources.
LEMMA SpecsFacts ==
  ASSUME NEW s \in DOMAIN Sources, NamesAccepted(Sources[s])
  PROVE  /\ DOMAIN Specs(Sources[s]) = Agents(Sources[s])
         /\ IsFiniteSet(Agents(Sources[s]))
         /\ \A n \in Agents(Sources[s]) :
              /\ Specs(Sources[s])[n].mode = Sources[s].agents[n].mode
              /\ Specs(Sources[s])[n].parents = Sources[s].agents[n].parents
PROOF
  <1> DEFINE src == Sources[s]
  <1>1. IsFiniteSet(Range(src.names))
    BY SourcesAssumption, NamesFinite
  <1>2. ASSUME NEW n \in Range(src.names)
        PROVE  /\ Specs(src)[n].mode = src.agents[n].mode
               /\ Specs(src)[n].parents = src.agents[n].parents
    <2> DEFINE a == src.agents[n]
               p == DeepMerge(src.permissions, a.permissions)
    <2>1. Specs(src)[n] = [a EXCEPT !.permissions = p]
      BY DEF Specs
    <2>2. {"mode", "parents"} \subseteq DOMAIN a
      BY <1>2, SourcesAssumption DEF NamesAccepted
    <2> HIDE DEF a, p
    <2>3. [a EXCEPT !.permissions = p].mode = a.mode
          /\ [a EXCEPT !.permissions = p].parents = a.parents
      BY <2>2
    <2> QED
      BY <2>1, <2>3 DEF a
  <1> QED
    BY <1>1, <1>2 DEF Specs, Agents

\* Whatever _validate_graph accepts is routed from its root; that it asks for no cycle
\* follows from the rest.
LEMMA AcceptedIsRouted ==
  ASSUME NEW s \in DOMAIN Sources, NamesAccepted(Sources[s]), GraphAccepted(Specs(Sources[s]))
  PROVE  Routed(Sources[s])
PROOF
  <1> DEFINE src == Sources[s]
             specs == Specs(src)
             primary == {n \in DOMAIN specs : specs[n].mode = "primary"}
             root == CHOOSE n \in primary : TRUE
             L1 == Below(specs, {root})
             L2 == Below(specs, L1)
             parents(n) == Range(src.agents[n].parents)
  <1>1. /\ Cardinality(primary) = 1
        /\ specs[root].parents = <<>>
        /\ ParentsKnown(specs)
        /\ Level(specs, root, 3) = {}
        /\ DOMAIN specs = UNION {Level(specs, root, d) : d \in 0..2}
    BY DEF GraphAccepted
  <1>2. /\ Agents(src) = DOMAIN specs
        /\ IsFiniteSet(DOMAIN specs)
        /\ \A n \in DOMAIN specs :
             specs[n].mode = src.agents[n].mode /\ specs[n].parents = src.agents[n].parents
    BY SpecsFacts
  <1>3. primary = {root}
    <2>1. IsFiniteSet(primary)
      BY <1>2, FS_Subset
    <2>2. PICK x : primary = {x}
      BY <1>1, <2>1, FS_Singleton
    <2> QED
      BY <2>2
  <1>4. \A n, c : c \in Children(specs, n) <=> c \in DOMAIN specs /\ n \in parents(c)
    BY <1>2 DEF Children
  <1>5. \A n \in DOMAIN specs : parents(n) \subseteq DOMAIN specs
    BY <1>1, <1>2 DEF ParentsKnown
  <1>6. DOMAIN specs = {root} \cup L1 \cup L2 /\ Below(specs, L2) = {}
    <2>1. UNION {Level(specs, root, d) : d \in 0..2}
            = Level(specs, root, 0) \cup Level(specs, root, 1) \cup Level(specs, root, 2)
      OBVIOUS
    <2> QED
      BY <1>1, <2>1, LevelFacts
  <1>7. root \in DOMAIN specs /\ src.agents[root].parents = <<>>
    BY <1>1, <1>2, <1>3
  <1> HIDE DEF specs, root, primary, parents
  <1>8. \A set, c : c \in Below(specs, set) <=>
                    c \in DOMAIN specs /\ \E n \in set : n \in parents(c)
    BY <1>4 DEF Below
  <1> HIDE DEF L1, L2
  <1>9. /\ \A c : c \in L1 <=> c \in DOMAIN specs /\ root \in parents(c)
        /\ \A c : c \in L2 <=> c \in DOMAIN specs /\ \E n \in L1 : n \in parents(c)
        /\ \A c \in DOMAIN specs, n \in L2 : n \notin parents(c)
    <2>1. L1 = Below(specs, {root}) /\ L2 = Below(specs, L1)
      BY DEF L1, L2
    <2>2. \A c : c \in L1 <=> c \in DOMAIN specs /\ root \in parents(c)
      BY <1>8, <2>1
    <2>3. \A c : c \in L2 <=> c \in DOMAIN specs /\ \E n \in L1 : n \in parents(c)
      BY <1>8, <2>1, Zenon
    <2>4. \A c \in DOMAIN specs, n \in L2 : n \notin parents(c)
      BY <1>6, <1>8
    <2> QED
      BY <2>2, <2>3, <2>4
  <1>10. Chains(src, 4) = {}
    <2> SUFFICES ASSUME NEW c \in Chains(src, 4)
                 PROVE  FALSE
      OBVIOUS
    <2>1. /\ {c[1], c[2], c[3], c[4]} \subseteq DOMAIN specs
          /\ c[1] \in parents(c[2]) /\ c[2] \in parents(c[3]) /\ c[3] \in parents(c[4])
      BY <1>2 DEF Chains, parents
    <2> QED
      BY <1>6, <1>9, <2>1
  <1>11. ASSUME NEW n \in DOMAIN specs
         PROVE  \E len \in 1..3 : \E c \in Chains(src, len) : c[1] = root /\ c[len] = n
    <2>1. CASE n = root
      <3> DEFINE c == [i \in 1..1 |-> root]
      <3>1. c \in Chains(src, 1) /\ c[1] = root
        BY <1>2, <1>7 DEF Chains
      <3> QED
        BY <2>1, <3>1
    <2>2. CASE n \in L1
      <3> DEFINE c == [i \in 1..2 |-> IF i = 1 THEN root ELSE n]
      <3>1. c \in Chains(src, 2) /\ c[1] = root /\ c[2] = n
        BY <1>2, <1>7, <1>9, <2>2 DEF Chains, parents
      <3> QED
        BY <3>1
    <2>3. CASE n \in L2
      <3>1. PICK m \in L1 : m \in parents(n)
        BY <1>9, <2>3
      <3> DEFINE c == [i \in 1..3 |-> IF i = 1 THEN root ELSE IF i = 2 THEN m ELSE n]
      <3>2. c \in Chains(src, 3) /\ c[1] = root /\ c[3] = n
        BY <1>2, <1>7, <1>9, <2>3, <3>1 DEF Chains, parents
      <3> QED
        BY <3>2
    <2> QED
      BY <1>6, <2>1, <2>2, <2>3
  <1>12. {n \in Agents(src) : src.agents[n].mode = "primary"} = {root}
    BY <1>2, <1>3 DEF primary
  <1> QED
    BY <1>2, <1>5, <1>7, <1>10, <1>11, <1>12 DEF Routed, parents

\* A run plans and writes only when the agents it loaded (_validate_graph) know their
\* parents, one of them is primary and has none, every agent is at the end of a chain of
\* delegations from it, and no chain has three delegations, so that there is no cycle.
THEOREM RunsAreRouted ==
  Spec => [](pc \in {"plan", "write", "fill"} => run.source \in RoutedSources)
PROOF
  <1>1. SyncInvariant => (pc \in {"plan", "write", "fill"} => run.source \in RoutedSources)
    <2> SUFFICES ASSUME run.source \in Loadable
                 PROVE  run.source \in RoutedSources
      BY DEF SyncInvariant, Stages
    <2>1. /\ run.source \in DOMAIN Sources
          /\ NamesAccepted(Sources[run.source])
          /\ GraphAccepted(Specs(Sources[run.source]))
      BY DEF Loadable, AgentsLoad, FieldsLoad
    <2> QED
      BY <2>1, AcceptedIsRouted DEF RoutedSources
  <1> QED
    BY SyncInductive, <1>1, PTL

-----------------------------------------------------------------------------
(* Dicts and what is merged into them *)

\* Merged is the sequence of prefixes of a merge, as DeepMerge computes them.
Merged(merged, base, override, n) ==
  merged = [k \in 0..n |->
              IF k = 0 THEN base ELSE Put(merged[k - 1], override[k].key, override[k].value)]

LEMMA MergedExists ==
  ASSUME NEW base, NEW override
  PROVE  \A n \in Nat : \E merged : Merged(merged, base, override, n)
<1> DEFINE P == {n \in Nat : \E merged : Merged(merged, base, override, n)}
<1>1. 0 \in P
  <2>1. Merged([k \in 0..0 |-> base], base, override, 0)
    BY DEF Merged
  <2>2. QED
    BY <2>1
<1>2. ASSUME NEW n \in Nat, n \in P PROVE n + 1 \in P
  <2>1. PICK merged : Merged(merged, base, override, n)
    BY <1>2
  <2> DEFINE last == Put(merged[n], override[n + 1].key, override[n + 1].value)
             more == [k \in 0..(n + 1) |-> IF k = n + 1 THEN last ELSE merged[k]]
  <2>2. Merged(more, base, override, n + 1)
    <3>1. \A k \in 0..n :
            merged[k] = IF k = 0 THEN base
                        ELSE Put(merged[k - 1], override[k].key, override[k].value)
      BY <2>1 DEF Merged
    <3>2. QED
      BY <3>1 DEF Merged
  <2>3. QED
    BY <2>2
<1> HIDE DEF P
<1>3. Nat \subseteq P
  BY <1>1, <1>2, SetInduction
<1>4. QED
  BY <1>3 DEF P

LEMMA RangeSeq ==
  ASSUME NEW S, NEW s \in Seq(S)
  PROVE  s \in Seq(Range(s))
  BY DEF Range

\* Dict e is d with entry x of key k put in it.
With(e, d, k, x) ==
  /\ IsDict(e)
  /\ Len(d) \in Nat /\ Len(e) \in Nat /\ Len(d) <= Len(e)
  /\ \A i \in 1..Len(d) : e[i] = IF d[i].key = k THEN x ELSE d[i]
  /\ Len(e) = Len(d) \/ (Len(e) = Len(d) + 1 /\ e[Len(e)] = x)
  /\ k \notin Keys(d) => Len(e) = Len(d) + 1

\* An entry that is put in a dict keeps its place if its key was there, and is the last
\* one otherwise; the other entries stay.
LEMMA PutFacts ==
  ASSUME NEW d, IsDict(d), NEW k, NEW v, NEW e, e = Put(d, k, v),
         NEW x, x = [key |-> k, value |-> v]
  PROVE  With(e, d, k, x)
PROOF
  <1> DEFINE R == Range(d) \cup {x}
  <1>1. /\ d \in Seq(Range(d)) /\ Len(d) \in Nat /\ DOMAIN d = 1..Len(d)
        /\ \A i \in 1..Len(d) : d[i] \in Range(d) /\ {"key", "value"} \subseteq DOMAIN d[i]
    BY DEF IsDict
  <1>2. {"key", "value"} \subseteq DOMAIN x
    OBVIOUS
  <1>3. CASE k \in Keys(d)
    <2>1. e = [i \in 1..Len(d) |-> IF d[i].key = k THEN x ELSE d[i]]
      BY <1>1, <1>3 DEF Put
    <2>2. e \in Seq(R) /\ Len(e) = Len(d)
      BY <1>1, <2>1
    <2>3. e \in Seq(Range(e))
      BY <2>2, RangeSeq
    <2>4. IsDict(e)
      <3>1. \A i \in DOMAIN d : e[i].key = d[i].key
        BY <1>1, <2>1
      <3>2. \A i, j \in DOMAIN e : e[i].key = e[j].key => i = j
        BY <1>1, <2>1, <3>1 DEF IsDict
      <3> QED
        BY <1>1, <1>2, <2>1, <2>3, <3>2 DEF IsDict
    <2>5. \A i \in 1..Len(d) : e[i] = IF d[i].key = k THEN x ELSE d[i]
      BY <2>1
    <2>6. Len(e) = Len(d) /\ Len(d) \in Nat /\ Len(d) <= Len(d)
      BY <1>1, <2>2
    <2> QED
      BY <1>3, <2>4, <2>5, <2>6 DEF With
  <1>4. CASE k \notin Keys(d)
    <2>1. e = Append(d, x)
      BY <1>4 DEF Put
    <2>2. \A i \in 1..Len(d) : d[i].key # k
      BY <1>1, <1>4 DEF Keys
    <2>3. /\ e \in Seq(R) /\ Len(e) = Len(d) + 1 /\ e[Len(d) + 1] = x
          /\ \A i \in 1..Len(d) : e[i] = d[i]
      <3>1. d \in Seq(R) /\ x \in R
        BY <1>1
      <3> QED
        BY <1>1, <2>1, <3>1
    <2>4. e \in Seq(Range(e))
      BY <2>3, RangeSeq
    <2>5. ASSUME NEW i \in DOMAIN e PROVE {"key", "value"} \subseteq DOMAIN e[i]
      <3>1. i \in 1..Len(d) \/ i = Len(d) + 1
        BY <1>1, <2>3
      <3> QED
        BY <1>1, <1>2, <2>3, <3>1
    <2>6. IsDict(e)
      <3>1. DOMAIN e = 1..(Len(d) + 1)
        BY <2>3
      <3>2. \A i \in 1..Len(d) : e[i].key # e[Len(d) + 1].key
        BY <2>2, <2>3
      <3>3. \A i, j \in 1..Len(d) : e[i].key = e[j].key => i = j
        BY <1>1, <2>3 DEF IsDict
      <3>4. \A i \in DOMAIN e : i \in 1..Len(d) \/ i = Len(d) + 1
        BY <1>1, <3>1
      <3>5. \A i, j \in DOMAIN e : e[i].key = e[j].key => i = j
        BY <3>2, <3>3, <3>4
      <3> QED
        BY <2>4, <2>5, <3>5 DEF IsDict
    <2> QED
      BY <1>1, <1>4, <2>2, <2>3, <2>6 DEF With
  <1> QED
    BY <1>3, <1>4

\* A dict has an entry with the key and the value of entry x.
Has(d, x) == \E i \in 1..Len(d) : d[i].key = x.key /\ d[i].value = x.value

\* What is merged over a dict keeps the places of its entries, adds entries with keys of
\* its own, and gives its keys its values.
MergedOver(d, base, override, V) ==
  /\ IsDict(d)
  /\ Len(base) \in Nat /\ Len(d) \in Nat /\ Len(base) <= Len(d)
  /\ \A i \in 1..Len(base) : base[i].key \notin Keys(override) => d[i] = base[i]
  /\ \A i \in 1..Len(base) : d[i].key = base[i].key
  /\ \A i \in (Len(base) + 1)..Len(d) : d[i].key \in Keys(override)
  /\ \A i \in 1..Len(d) : d[i].value \in V
  /\ \A j \in 1..Len(override) : Has(d, override[j])

LEMMA MergeFacts ==
  ASSUME NEW base, IsDict(base), NEW override, IsDict(override), NEW V,
         \A i \in DOMAIN base : base[i].value \in V,
         \A i \in DOMAIN override : override[i].value \in V
  PROVE  MergedOver(DeepMerge(base, override), base, override, V)
PROOF
  <1> DEFINE m == CHOOSE f : Merged(f, base, override, Len(override))
             Good(d) == /\ IsDict(d)
                        /\ Len(d) \in Nat /\ Len(base) <= Len(d)
                        /\ \A i \in 1..Len(base) :
                             base[i].key \notin Keys(override) => d[i] = base[i]
                        /\ \A i \in 1..Len(base) : d[i].key = base[i].key
                        /\ \A i \in (Len(base) + 1)..Len(d) : d[i].key \in Keys(override)
                        /\ \A i \in 1..Len(d) : d[i].value \in V
             Given(d, n) == \A j \in 1..n : Has(d, override[j])
             P == {n \in Nat : n <= Len(override) => Good(m[n]) /\ Given(m[n], n)}
  <1>1. Len(override) \in Nat /\ Len(base) \in Nat /\ DOMAIN override = 1..Len(override)
    BY DEF IsDict
  <1>2. Merged(m, base, override, Len(override))
    BY <1>1, MergedExists
  <1>3. DeepMerge(base, override) = m[Len(override)]
    BY DEF DeepMerge, Merged
  <1> HIDE DEF m
  <1>4. \A n \in 0..Len(override) :
          m[n] = IF n = 0 THEN base ELSE Put(m[n - 1], override[n].key, override[n].value)
    BY <1>2 DEF Merged
  <1>5. 0 \in P
    <2>1. m[0] = base /\ DOMAIN base = 1..Len(base)
      BY <1>1, <1>4 DEF IsDict
    <2> QED
      BY <1>1, <2>1
  <1>6. ASSUME NEW n \in Nat, n \in P PROVE n + 1 \in P
    <2> HIDE DEF Good, Given
    <2> SUFFICES ASSUME n + 1 <= Len(override)
                 PROVE  Good(m[n + 1]) /\ Given(m[n + 1], n + 1)
      OBVIOUS
    <2> USE DEF Good, Given
    <2> DEFINE d == m[n]
               e == m[n + 1]
    <2>1. Good(d) /\ Given(d, n)
      BY <1>1, <1>6
    <2>2. PICK k, v : k = override[n + 1].key /\ v = override[n + 1].value
      OBVIOUS
    <2>3. e = Put(d, k, v)
      <3>1. n + 1 \in 0..Len(override) /\ n + 1 # 0 /\ (n + 1) - 1 = n
        BY <1>1
      <3> QED
        BY <1>4, <2>2, <3>1
    <2>4. k \in Keys(override)
      BY <1>1, <2>2 DEF Keys
    <2> HIDE DEF d, e
    <2>5. PICK x : x = [key |-> k, value |-> v]
      OBVIOUS
    <2>6. IsDict(d) /\ With(e, d, k, x)
      BY <2>1, <2>3, <2>5, PutFacts
    <2>7. /\ IsDict(e)
          /\ Len(e) \in Nat /\ Len(d) <= Len(e)
          /\ \A i \in 1..Len(d) : e[i] = x \/ (d[i].key # k /\ e[i] = d[i])
          /\ Len(e) = Len(d) \/ (Len(e) = Len(d) + 1 /\ e[Len(e)] = x)
      BY <2>6 DEF With
    <2>8. x.key = k /\ x.value \in V
      <3>1. v \in V
        BY <1>1, <2>2
      <3> QED
        BY <2>5, <3>1
    <2>9. \A i \in 1..Len(base) : base[i].key \notin Keys(override) => e[i] = base[i]
      <3>1. ASSUME NEW i \in 1..Len(base), base[i].key \notin Keys(override)
            PROVE  e[i] = base[i]
        <4>1. i \in 1..Len(d) /\ d[i] = base[i]
          BY <1>1, <2>1, <3>1
        <4>2. d[i].key # k
          BY <2>4, <3>1, <4>1
        <4> QED
          BY <2>6, <4>1, <4>2 DEF With
      <3> QED
        BY <3>1
    <2>10. ASSUME NEW i \in (Len(base) + 1)..Len(e) PROVE e[i].key \in Keys(override)
      <3>1. e[i] = x => e[i].key \in Keys(override)
        BY <2>4, <2>8
      <3>2. CASE i <= Len(d)
        <4>1. i \in 1..Len(d) /\ i \in (Len(base) + 1)..Len(d)
          BY <1>1, <2>1, <3>2
        <4>2. e[i] = x \/ e[i] = d[i]
          BY <2>7, <4>1
        <4>3. d[i].key \in Keys(override)
          BY <2>1, <4>1
        <4> QED
          BY <3>1, <4>2, <4>3
      <3>3. CASE i > Len(d)
        <4>1. i = Len(e) /\ e[Len(e)] = x
          BY <1>1, <2>1, <2>7, <3>3
        <4> QED
          BY <3>1, <4>1
      <3> QED
        BY <1>1, <2>1, <3>2, <3>3
    <2>11. ASSUME NEW i \in 1..Len(base) PROVE e[i].key = base[i].key
      <3>1. i \in 1..Len(d) /\ d[i].key = base[i].key
        BY <1>1, <2>1
      <3>2. e[i] = IF d[i].key = k THEN x ELSE d[i]
        BY <2>6, <3>1 DEF With
      <3> QED
        BY <2>8, <3>1, <3>2
    <2>12. Has(e, override[n + 1])
      <3>1. \E i \in 1..Len(e) : e[i] = x
        <4>1. CASE k \in Keys(d)
          <5>1. PICK i \in DOMAIN d : d[i].key = k
            BY <4>1 DEF Keys
          <5>2. i \in 1..Len(d) /\ i \in 1..Len(e)
            BY <2>6, <2>7, <5>1 DEF IsDict, With
          <5>3. e[i] = x
            BY <2>6, <5>1, <5>2 DEF With
          <5> QED
            BY <5>2, <5>3
        <4>2. CASE k \notin Keys(d)
          <5>1. Len(e) = Len(d) + 1 /\ Len(d) \in Nat
            BY <2>6, <4>2 DEF With
          <5>2. e[Len(e)] = x /\ Len(e) \in 1..Len(e)
            BY <2>7, <5>1
          <5> QED
            BY <5>2
        <4> QED
          BY <4>1, <4>2
      <3> QED
        BY <2>2, <2>5, <3>1 DEF Has
    <2>13. ASSUME NEW j \in 1..n PROVE Has(e, override[j])
      <3>1. PICK i \in 1..Len(d) : d[i].key = override[j].key /\ d[i].value = override[j].value
        BY <2>1 DEF Has
      <3>2. j \in DOMAIN override /\ n + 1 \in DOMAIN override /\ j # n + 1
        BY <1>1
      <3>3. override[j].key # k
        BY <2>2, <3>2 DEF IsDict
      <3>4. e[i] = d[i] /\ i \in 1..Len(e)
        BY <2>6, <2>7, <3>1, <3>3 DEF With
      <3> QED
        BY <3>1, <3>4 DEF Has
    <2>14. Given(e, n + 1)
      <3>1. \A j \in 1..(n + 1) : j \in 1..n \/ j = n + 1
        OBVIOUS
      <3> QED
        BY <2>12, <2>13, <3>1
    <2>15. ASSUME NEW i \in 1..Len(e) PROVE e[i].value \in V
      <3>1. e[i] = x \/ (i \in 1..Len(d) /\ e[i] = d[i])
        BY <2>1, <2>7
      <3>2. i \in 1..Len(d) => d[i].value \in V
        BY <2>1
      <3> QED
        BY <2>8, <3>1, <3>2
    <2> QED
      BY <1>1, <2>1, <2>7, <2>9, <2>10, <2>11, <2>14, <2>15 DEF e
  <1> HIDE DEF P
  <1>7. Len(override) \in P
    BY <1>1, <1>5, <1>6, SetInduction
  <1> QED
    BY <1>1, <1>3, <1>7 DEF P, MergedOver

-----------------------------------------------------------------------------

\* Flat is the sequence of prefixes of a flattened sequence, as FlattenSeq computes them.
Flat(flat, seqs, n) ==
  flat = [k \in 1..n |-> IF k = 1 THEN seqs[k] ELSE flat[k - 1] \o seqs[k]]

LEMMA FlatExists ==
  ASSUME NEW seqs
  PROVE  \A n \in Nat : \E flat : Flat(flat, seqs, n)
<1> DEFINE P == {n \in Nat : \E flat : Flat(flat, seqs, n)}
<1>1. 0 \in P
  <2>1. Flat([k \in 1..0 |-> seqs], seqs, 0)
    BY DEF Flat
  <2>2. QED
    BY <2>1
<1>2. ASSUME NEW n \in Nat, n \in P PROVE n + 1 \in P
  <2>1. PICK flat : Flat(flat, seqs, n)
    BY <1>2
  <2> DEFINE last == IF n + 1 = 1 THEN seqs[n + 1] ELSE flat[n] \o seqs[n + 1]
             more == [k \in 1..(n + 1) |-> IF k = n + 1 THEN last ELSE flat[k]]
  <2>2. Flat(more, seqs, n + 1)
    <3>1. \A k \in 1..n : flat[k] = IF k = 1 THEN seqs[k] ELSE flat[k - 1] \o seqs[k]
      BY <2>1 DEF Flat
    <3>2. ASSUME NEW k \in 1..(n + 1)
          PROVE  more[k] = IF k = 1 THEN seqs[k] ELSE more[k - 1] \o seqs[k]
      <4>1. CASE k = n + 1
        <5>1. k # 1 => k - 1 \in 1..n /\ k - 1 = n /\ more[k - 1] = flat[k - 1]
          BY <4>1
        <5>2. QED
          BY <4>1, <5>1
      <4>2. CASE k \in 1..n
        <5>1. k # 1 => k - 1 \in 1..n /\ k - 1 # n + 1 /\ more[k - 1] = flat[k - 1]
          BY <4>2
        <5>2. more[k] = flat[k]
          BY <4>2
        <5>3. QED
          BY <3>1, <4>2, <5>1, <5>2
      <4>3. QED
        BY <4>1, <4>2
    <3>3. more = [k \in 1..(n + 1) |-> more[k]]
      OBVIOUS
    <3> HIDE DEF more
    <3>4. QED
      BY <3>2, <3>3 DEF Flat
  <2>3. QED
    BY <2>2
<1> HIDE DEF P
<1>3. Nat \subseteq P
  BY <1>1, <1>2, SetInduction
<1>4. QED
  BY <1>3 DEF P

LEMMA FlattenFacts ==
  ASSUME NEW R, NEW seqs \in Seq(Seq(R)), Len(seqs) > 0
  PROVE  \E flat : /\ FlattenSeq(seqs) = flat[Len(seqs)]
                   /\ \A k \in 1..Len(seqs) :
                        flat[k] = IF k = 1 THEN seqs[k] ELSE flat[k - 1] \o seqs[k]
<1> DEFINE flat == CHOOSE f : Flat(f, seqs, Len(seqs))
<1>1. Len(seqs) \in Nat /\ Len(seqs) # 0
  OBVIOUS
<1>2. Flat(flat, seqs, Len(seqs))
  BY <1>1, FlatExists
<1>3. FlattenSeq(seqs) = flat[Len(seqs)]
  BY <1>1 DEF FlattenSeq, Flat
<1> HIDE DEF flat
<1>4. \A k \in 1..Len(seqs) :
        flat[k] = IF k = 1 THEN seqs[k] ELSE flat[k - 1] \o seqs[k]
  BY <1>2 DEF Flat
<1>5. QED
  BY <1>3, <1>4

\* A rule about delegating to an agent.
Matches(rule, to) == rule.action = "subagent" /\ rule.resource \in {"*", to}

\* The rules say whether an agent may be delegated to, and that it may if it is in a set.
Decided(rules, to, allowed) ==
  /\ \E i \in DOMAIN rules : Matches(rules[i], to)
  /\ Delegates(rules, to) <=> to \in allowed

LEMMA LastDecides ==
  ASSUME NEW R, NEW r \in Seq(R), NEW s \in Seq(R), NEW to, NEW allowed,
         \/ Decided(s, to, allowed)
         \/ Decided(r, to, allowed) /\ \A i \in DOMAIN s : ~Matches(s[i], to)
  PROVE  Decided(r \o s, to, allowed)
<1> DEFINE t == r \o s
           n == Len(r)
<1>1. /\ n \in Nat /\ Len(s) \in Nat /\ DOMAIN r = 1..n /\ DOMAIN s = 1..Len(s)
      /\ DOMAIN t = 1..(n + Len(s))
      /\ \A i \in 1..n : t[i] = r[i]
      /\ \A i \in 1..Len(s) : t[n + i] = s[i]
  OBVIOUS
<1> HIDE DEF t, n
<1>2. \A i \in DOMAIN t : i \in 1..n \/ (i - n \in 1..Len(s) /\ n + (i - n) = i)
  BY <1>1
<1>3. CASE \E i \in DOMAIN s : Matches(s[i], to)
  <2>1. Decided(s, to, allowed)
    BY <1>3
  <2>2. \E i \in DOMAIN t : Matches(t[i], to)
    BY <1>1, <1>3
  <2>3. Delegates(s, to) => Delegates(t, to)
    <3>1. SUFFICES ASSUME Delegates(s, to) PROVE Delegates(t, to)
      OBVIOUS
    <3>2. PICK i \in 1..Len(s) : /\ Matches(s[i], to) /\ s[i].effect = "allow"
                                 /\ \A j \in 1..Len(s) : Matches(s[j], to) => j <= i
      BY <1>1, <3>1 DEF Delegates, Matches
    <3>3. n + i \in DOMAIN t /\ t[n + i] = s[i]
      BY <1>1
    <3>4. ASSUME NEW j \in DOMAIN t, Matches(t[j], to) PROVE j <= n + i
      BY <1>1, <1>2, <3>2, <3>4
    <3>5. QED
      BY <3>2, <3>3, <3>4 DEF Delegates, Matches
  <2>4. Delegates(t, to) => Delegates(s, to)
    <3>1. SUFFICES ASSUME Delegates(t, to) PROVE Delegates(s, to)
      OBVIOUS
    <3>2. PICK i \in DOMAIN t : /\ Matches(t[i], to) /\ t[i].effect = "allow"
                                /\ \A j \in DOMAIN t : Matches(t[j], to) => j <= i
      BY <3>1 DEF Delegates, Matches
    <3>3. PICK k \in 1..Len(s) : Matches(s[k], to)
      BY <1>1, <1>3
    <3>4. n + k \in DOMAIN t /\ n + k <= i
      BY <1>1, <3>2, <3>3
    <3>5. i - n \in 1..Len(s) /\ t[i] = s[i - n]
      BY <1>1, <1>2, <3>4
    <3>6. ASSUME NEW j \in 1..Len(s), Matches(s[j], to) PROVE j <= i - n
      <4>1. n + j \in DOMAIN t /\ Matches(t[n + j], to)
        BY <1>1, <3>6
      <4>2. n + j <= i
        BY <3>2, <4>1
      <4>3. QED
        BY <1>1, <4>2
    <3>7. QED
      BY <1>1, <3>2, <3>5, <3>6 DEF Delegates, Matches
  <2>5. QED
    BY <2>1, <2>2, <2>3, <2>4 DEF Decided, t
<1>4. CASE \A i \in DOMAIN s : ~Matches(s[i], to)
  <2>1. Decided(r, to, allowed)
    BY <1>4 DEF Decided
  <2>2. \A i \in DOMAIN t : Matches(t[i], to) <=> i \in 1..n /\ Matches(r[i], to)
    BY <1>1, <1>2, <1>4
  <2>3. Delegates(t, to) <=> Delegates(r, to)
    <3>1. \A i \in 1..n : i \in DOMAIN t /\ t[i] = r[i]
      BY <1>1
    <3>2. QED
      BY <1>1, <2>2, <3>1 DEF Delegates, Matches
  <2>4. QED
    BY <1>1, <2>1, <2>2, <2>3 DEF Decided, t
<1>5. QED
  BY <1>3, <1>4

\* The rules of one entry.
EntryRules(e) ==
  [j \in DOMAIN e.value |->
     [action |-> IF e.key = "task" THEN "subagent" ELSE e.key,
      resource |-> e.value[j].resource, effect |-> e.value[j].effect]]

\* The last entry about delegating decides.
LEMMA RulesDecided ==
  ASSUME NEW d, IsDict(d), NEW W, \A i \in DOMAIN d : d[i].value \in Seq(W),
         NEW to, NEW allowed, NEW t \in DOMAIN d,
         Decided(EntryRules(d[t]), to, allowed),
         \A i \in DOMAIN d : \/ i < t
                            \/ d[i].key \notin {"task", "subagent"}
                            \/ Decided(EntryRules(d[i]), to, allowed)
  PROVE  Decided(Rules(d), to, allowed)
<1> DEFINE n == Len(d)
           acts == {IF d[i].key = "task" THEN "subagent" ELSE d[i].key : i \in DOMAIN d}
           R == {[action |-> p[1], resource |-> p[2].resource, effect |-> p[2].effect] :
                   p \in acts \X W}
           seqs == [i \in DOMAIN d |-> EntryRules(d[i])]
<1>1. n \in Nat /\ DOMAIN d = 1..n /\ n > 0
  BY DEF IsDict
<1>2. ASSUME NEW i \in 1..n
      PROVE  EntryRules(d[i]) \in Seq(R)
  <2> DEFINE v == d[i].value
             a == IF d[i].key = "task" THEN "subagent" ELSE d[i].key
  <2>1. v \in Seq(W) /\ a \in acts
    BY <1>1
  <2>2. EntryRules(d[i]) = [j \in DOMAIN v |->
          [action |-> a, resource |-> v[j].resource, effect |-> v[j].effect]]
    BY DEF EntryRules
  <2> HIDE DEF v, a, acts
  <2>3. DOMAIN v = 1..Len(v) /\ Len(v) \in Nat /\ \A j \in 1..Len(v) : v[j] \in W
    BY <2>1
  <2>4. \A j \in 1..Len(v) :
          [action |-> a, resource |-> v[j].resource, effect |-> v[j].effect] \in R
    <3> TAKE j \in 1..Len(v)
    <3>1. <<a, v[j]>> \in acts \X W /\ <<a, v[j]>>[1] = a /\ <<a, v[j]>>[2] = v[j]
      BY <2>1, <2>3
    <3>2. QED
      BY <3>1
  <2> HIDE DEF R
  <2>5. QED
    BY <2>2, <2>3, <2>4
<1> HIDE DEF R
<1>3. seqs \in Seq(Seq(R)) /\ Len(seqs) = n /\ \A i \in 1..n : seqs[i] = EntryRules(d[i])
  BY <1>1, <1>2
<1>4. Rules(d) = FlattenSeq(seqs)
  BY DEF Rules, EntryRules
<1> HIDE DEF seqs
<1> HIDE DEF n
<1>5. PICK flat : /\ Rules(d) = flat[n]
                  /\ \A k \in 1..n : flat[k] = IF k = 1 THEN seqs[k] ELSE flat[k - 1] \o seqs[k]
  <2>1. PICK flat : /\ FlattenSeq(seqs) = flat[Len(seqs)]
                    /\ \A k \in 1..Len(seqs) :
                         flat[k] = IF k = 1 THEN seqs[k] ELSE flat[k - 1] \o seqs[k]
    BY <1>1, <1>3, FlattenFacts
  <2>2. QED
    BY <1>3, <1>4, <2>1
<1> DEFINE P == {k \in Nat : k + 1 <= n =>
                   flat[k + 1] \in Seq(R) /\ (t <= k + 1 => Decided(flat[k + 1], to, allowed))}
<1>6. 0 \in P
  <2>1. flat[1] = EntryRules(d[1]) /\ EntryRules(d[1]) \in Seq(R)
    <3>1. 1 \in 1..n
      BY <1>1
    <3>2. flat[1] = seqs[1]
      BY <1>5, <3>1
    <3>3. QED
      BY <1>2, <1>3, <3>1, <3>2
  <2>2. t <= 1 => t = 1
    BY <1>1
  <2>3. QED
    BY <2>1, <2>2
<1>7. ASSUME NEW k \in Nat, k \in P PROVE k + 1 \in P
  <2>1. SUFFICES ASSUME k + 2 <= n
                 PROVE  /\ flat[k + 2] \in Seq(R)
                        /\ t <= k + 2 => Decided(flat[k + 2], to, allowed)
    <3>1. (k + 1) + 1 = k + 2
      OBVIOUS
    <3>2. QED
      BY <3>1
  <2> DEFINE r == flat[k + 1]
             s == EntryRules(d[k + 2])
  <2>2. r \in Seq(R) /\ (t <= k + 1 => Decided(r, to, allowed))
    BY <1>1, <1>7, <2>1
  <2>3. s \in Seq(R) /\ flat[k + 2] = r \o s
    <3>1. k + 2 \in 1..n /\ k + 2 # 1 /\ (k + 2) - 1 = k + 1
      BY <1>1, <2>1
    <3>2. QED
      BY <1>2, <1>3, <1>5, <3>1
  <2>4. flat[k + 2] \in Seq(R)
    BY <2>2, <2>3
  <2>5. ASSUME t <= k + 2 PROVE Decided(flat[k + 2], to, allowed)
    <3>1. CASE Decided(s, to, allowed)
      BY <2>2, <2>3, <3>1, LastDecides
    <3>2. CASE ~Decided(s, to, allowed)
      <4>1. k + 2 \in DOMAIN d /\ k + 2 >= t
        BY <1>1, <2>1, <2>5
      <4>2. t # k + 2 /\ d[k + 2].key \notin {"task", "subagent"}
        BY <1>1, <3>2, <4>1
      <4>3. Decided(r, to, allowed)
        BY <1>1, <2>2, <2>5, <4>2
      <4>4. \A j \in DOMAIN s : s[j].action = d[k + 2].key
        BY <4>2 DEF EntryRules
      <4>5. \A j \in DOMAIN s : ~Matches(s[j], to)
        BY <4>2, <4>4 DEF Matches
      <4>6. QED
        BY <2>2, <2>3, <4>3, <4>5, LastDecides
    <3>3. QED
      BY <3>1, <3>2
  <2>6. QED
    BY <2>4, <2>5
<1> HIDE DEF P
<1>8. n - 1 \in P
  <2>1. n - 1 \in Nat
    BY <1>1
  <2>2. QED
    BY <1>6, <1>7, <2>1, SetInduction
<1>9. QED
  <2>1. (n - 1) + 1 = n /\ t <= n
    BY <1>1
  <2>2. QED
    BY <1>1, <1>5, <1>8, <2>1 DEF P

-----------------------------------------------------------------------------
(* The delegation rules of an agent *)

\* The elements of a finite set in some order, each of them once.
LEMMA SetToSeqFacts ==
  ASSUME NEW S, IsFiniteSet(S)
  PROVE  /\ SetToSeq(S) \in Seq(S)
         /\ \A x \in S : \E i \in DOMAIN SetToSeq(S) : SetToSeq(S)[i] = x
         /\ \A i, j \in DOMAIN SetToSeq(S) : SetToSeq(S)[i] = SetToSeq(S)[j] => i = j
<1> DEFINE c == Cardinality(S)
           f == SetToSeq(S)
<1>1. c \in Nat /\ ExistsBijection(1..c, S)
  BY FS_CardinalityType
<1>2. \E g \in [1..c -> S] : IsInjective(g)
  BY <1>1 DEF ExistsBijection, Bijection, Injection
<1>3. f \in [1..c -> S] /\ IsInjective(f)
  BY <1>2 DEF SetToSeq
<1> HIDE DEF f
<1>4. f \in Surjection(1..c, S)
  <2>1. f \in Injection(1..c, S) /\ Cardinality(1..c) = Cardinality(S)
    BY <1>1, <1>3, FS_Interval DEF Injection
  <2>2. QED
    BY <2>1, FS_Injection
<1>5. QED
  BY <1>1, <1>3, <1>4 DEF Surjection, IsInjective, f

\* What the rules may be about, in a catalog of which specs are the agents.
RuleValues(specs) == [resource : DOMAIN specs \cup {"*"}, effect : Effects]

\* The entry of task denies all agents and then allows the children.
LEMMA TaskDecides ==
  ASSUME NEW specs, IsFiniteSet(DOMAIN specs), "*" \notin DOMAIN specs, NEW n,
         NEW e, e = [key |-> "task", value |-> TaskRules(specs, n)]
  PROVE  /\ TaskRules(specs, n) \in Seq(RuleValues(specs))
         /\ \A m \in DOMAIN specs : Decided(EntryRules(e), m, Children(specs, n))
<1> DEFINE kids == Children(specs, n)
           S == {[resource |-> c, effect |-> "allow"] : c \in kids}
           s == SetToSeq(S)
           T == TaskRules(specs, n)
           W == RuleValues(specs)
           deny == [resource |-> "*", effect |-> "deny"]
<1>1. kids \subseteq DOMAIN specs
  BY DEF Children
<1> HIDE DEF kids
<1>2. S \subseteq W /\ deny \in W
  BY <1>1 DEF RuleValues, Effects
<1>3. IsFiniteSet(S)
  <2> DEFINE g == [c \in kids |-> [resource |-> c, effect |-> "allow"]]
  <2>1. IsFiniteSet(kids)
    BY <1>1, FS_Subset
  <2>2. g \in Surjection(kids, S)
    BY DEF Surjection
  <2>3. QED
    BY <2>1, <2>2, FS_Surjection
<1> HIDE DEF W
<1>4. /\ s \in Seq(S)
      /\ \A x \in S : \E i \in DOMAIN s : s[i] = x
      /\ \A i, j \in DOMAIN s : s[i] = s[j] => i = j
  BY <1>3, SetToSeqFacts
<1>5. T = <<deny>> \o s
  BY DEF TaskRules, Whole, kids
<1> HIDE DEF S, s, T
<1>6. s \in Seq(W) /\ Len(s) \in Nat /\ DOMAIN s = 1..Len(s)
  BY <1>2, <1>4
<1>7. /\ T \in Seq(W) /\ DOMAIN T = 1..(Len(s) + 1)
      /\ T[1] = deny
      /\ \A i \in 1..Len(s) : T[i + 1] = s[i]
  <2> HIDE DEF deny
  <2>1. QED
    BY <1>2, <1>5, <1>6
<1> DEFINE r == EntryRules(e)
<1>8. /\ DOMAIN r = 1..(Len(s) + 1)
      /\ \A i \in 1..(Len(s) + 1) : r[i].action = "subagent" /\ r[i].resource = T[i].resource
                                     /\ r[i].effect = T[i].effect
  BY <1>7 DEF EntryRules, T
<1> HIDE DEF r
<1>9. r[1].resource = "*" /\ r[1].effect = "deny" /\ 1 \in DOMAIN r
  BY <1>6, <1>7, <1>8
<1>10. \A i \in 1..Len(s) : \E c \in kids : s[i] = [resource |-> c, effect |-> "allow"]
  BY <1>4, <1>6 DEF S
<1>11. ASSUME NEW i \in DOMAIN r, i # 1
       PROVE  \E c \in kids : /\ r[i].resource = c /\ r[i].effect = "allow"
                              /\ s[i - 1] = [resource |-> c, effect |-> "allow"]
  <2>1. i - 1 \in 1..Len(s) /\ (i - 1) + 1 = i /\ i \in 1..(Len(s) + 1)
    BY <1>6, <1>8, <1>11
  <2>2. PICK c \in kids : s[i - 1] = [resource |-> c, effect |-> "allow"]
    BY <1>10, <2>1
  <2>3. T[i] = s[i - 1]
    BY <1>7, <2>1
  <2>4. QED
    BY <1>8, <2>1, <2>2, <2>3
<1>12. ASSUME NEW m \in DOMAIN specs
       PROVE  Decided(r, m, kids)
  <2>1. Matches(r[1], m)
    BY <1>6, <1>8, <1>9 DEF Matches
  <2>2. ASSUME NEW i \in DOMAIN r, i # 1, Matches(r[i], m)
        PROVE  m \in kids /\ r[i].effect = "allow"
                 /\ s[i - 1] = [resource |-> m, effect |-> "allow"]
    <3>1. PICK c \in kids : /\ r[i].resource = c /\ r[i].effect = "allow"
                            /\ s[i - 1] = [resource |-> c, effect |-> "allow"]
      BY <1>11, <2>2
    <3>2. c = m
      BY <1>1, <2>2, <3>1 DEF Matches
    <3>3. QED
      BY <3>1, <3>2
  <2>3. Delegates(r, m) => m \in kids
    BY <1>9, <2>2 DEF Delegates, Matches
  <2>4. ASSUME m \in kids PROVE Delegates(r, m)
    <3>1. [resource |-> m, effect |-> "allow"] \in S
      BY <2>4 DEF S
    <3>2. PICK k \in 1..Len(s) : s[k] = [resource |-> m, effect |-> "allow"]
      BY <1>4, <1>6, <3>1
    <3>3. k + 1 \in DOMAIN r /\ k + 1 # 1 /\ r[k + 1].resource = m
            /\ r[k + 1].action = "subagent" /\ r[k + 1].effect = "allow"
      BY <1>6, <1>7, <1>8, <3>2
    <3>4. ASSUME NEW j \in DOMAIN r, Matches(r[j], m) PROVE j <= k + 1
      <4>1. CASE j = 1
        BY <4>1
      <4>2. CASE j # 1
        <5>1. s[j - 1] = s[k] /\ j - 1 \in 1..Len(s)
          BY <1>6, <1>8, <2>2, <3>2, <3>4, <4>2
        <5>2. j - 1 = k
          BY <1>4, <1>6, <5>1
        <5>3. QED
          BY <1>6, <1>8, <5>2
      <4>3. QED
        BY <4>1, <4>2
    <3>5. QED
      BY <3>3, <3>4 DEF Delegates, Matches
  <2>5. QED
    BY <1>9, <2>1, <2>3, <2>4 DEF Decided
<1>13. QED
  BY <1>7, <1>12 DEF T, W, kids, r

\* The permissions of an agent as entries of rules, with some effects changed.
RulesOf(d, p, f, specs) ==
  /\ IsDict(d) /\ Keys(d) = Keys(p) /\ DOMAIN d = DOMAIN p
  /\ \A i \in DOMAIN d : /\ d[i].value \in Seq(RuleValues(specs))
                         /\ d[i].key = p[i].key
                         /\ d[i].value = Whole(f[p[i].value])

\* The same permissions with an effect of each entry changed by f.
Changed(own, p, f) ==
  /\ own \in [DOMAIN p -> Range(own)]
  /\ \A i \in DOMAIN p : /\ DOMAIN own[i] = DOMAIN p[i] /\ own[i].key = p[i].key
                         /\ own[i].value = f[p[i].value]

LEMMA AsRulesFacts ==
  ASSUME NEW p, IsDict(p), NEW f, \A v \in Effects : f[v] \in Effects,
         \A i \in DOMAIN p : p[i].value \in Effects,
         NEW own, Changed(own, p, f), NEW specs
  PROVE  RulesOf(AsRules(own), p, f, specs)
<1> DEFINE d == AsRules(own)
<1>1. Len(p) \in Nat /\ DOMAIN p = 1..Len(p)
  BY DEF IsDict
<1>2. \A i \in 1..Len(p) : /\ DOMAIN own[i] = DOMAIN p[i] /\ own[i].key = p[i].key
                           /\ own[i].value = f[p[i].value]
  BY <1>1 DEF Changed
<1>3. ASSUME NEW i \in 1..Len(p)
      PROVE  /\ DOMAIN d[i] = DOMAIN p[i]
             /\ d[i].key = p[i].key
             /\ d[i].value = Whole(f[p[i].value])
  <2>1. {"key", "value"} \subseteq DOMAIN p[i]
    BY <1>1 DEF IsDict
  <2>2. DOMAIN own[i] = DOMAIN p[i] /\ own[i].key = p[i].key
          /\ own[i].value = f[p[i].value]
    BY <1>2, <2>1
  <2>3. d[i] = [own[i] EXCEPT !.value = Whole(own[i].value)]
    BY <1>1 DEF AsRules, Changed
  <2>4. QED
    BY <2>1, <2>2, <2>3
<1>4. d = [i \in 1..Len(p) |-> d[i]]
  <2>1. DOMAIN own = 1..Len(p)
    BY <1>1 DEF Changed
  <2>2. QED
    BY <2>1 DEF AsRules
<1> HIDE DEF d
<1>5. DOMAIN d = 1..Len(p) /\ d \in Seq(Range(d))
  <2>1. DOMAIN d = 1..Len(p)
    BY <1>4
  <2>2. \A i \in 1..Len(p) : d[i] \in Range(d)
    BY <2>1 DEF Range
  <2>3. QED
    BY <1>1, <1>4, <2>1, <2>2
<1>6. IsDict(d) /\ Keys(d) = Keys(p)
  <2>1. \A i \in 1..Len(p) : {"key", "value"} \subseteq DOMAIN d[i]
    BY <1>1, <1>3 DEF IsDict
  <2>2. \A i, j \in 1..Len(p) : d[i].key = d[j].key => i = j
    BY <1>1, <1>3 DEF IsDict
  <2>3. QED
    BY <1>1, <1>3, <1>5, <2>1, <2>2 DEF IsDict, Keys
<1>7. ASSUME NEW i \in 1..Len(p) PROVE d[i].value \in Seq(RuleValues(specs))
  <2>1. PICK y : y = [resource |-> "*", effect |-> f[p[i].value]]
    OBVIOUS
  <2>2. y \in RuleValues(specs)
    BY <1>1, <2>1 DEF RuleValues
  <2>3. d[i].value = <<y>>
    BY <1>3, <2>1 DEF Whole
  <2>4. QED
    BY <2>2, <2>3
<1>8. QED
  BY <1>1, <1>3, <1>5, <1>6, <1>7 DEF d, RulesOf

\* A catalog that loads: finitely many agents, none of them named "*", the permissions
\* of each a dict of effects.
GoodSpecs(specs) ==
  /\ IsFiniteSet(DOMAIN specs) /\ "*" \notin DOMAIN specs
  /\ \A n \in DOMAIN specs :
       /\ IsDict(specs[n].permissions)
       /\ \A i \in DOMAIN specs[n].permissions : specs[n].permissions[i].value \in Effects

LEMMA LoadableSpecs ==
  ASSUME NEW s \in Loadable
  PROVE  GoodSpecs(Specs(Sources[s]))
<1> DEFINE src == Sources[s]
           specs == Specs(src)
<1>1. s \in DOMAIN Sources /\ AgentsLoad(src)
  BY DEF Loadable
<1>2. /\ src.names \in Seq(Range(src.names)) /\ IsDict(src.permissions)
      /\ \A n \in DOMAIN src.agents : "permissions" \in DOMAIN src.agents[n]
                                       /\ IsDict(src.agents[n].permissions)
  BY <1>1, SourcesAssumption
<1> HIDE DEF src
<1>3. Range(src.names) \subseteq DOMAIN src.agents /\ "*" \notin Range(src.names)
  BY <1>1 DEF AgentsLoad, FieldsLoad, NamesAccepted
<1>4. DOMAIN specs = Range(src.names) /\ IsFiniteSet(DOMAIN specs)
  BY <1>2, NamesFinite DEF Specs
<1>5. ASSUME NEW n \in Range(src.names)
      PROVE  specs[n].permissions = DeepMerge(src.permissions, src.agents[n].permissions)
  <2>1. specs[n] = [src.agents[n] EXCEPT !.permissions =
                      DeepMerge(src.permissions, src.agents[n].permissions)]
    BY DEF Specs
  <2>2. "permissions" \in DOMAIN src.agents[n]
    BY <1>2, <1>3
  <2>3. QED
    BY <2>1, <2>2
<1>6. ASSUME NEW n \in Range(src.names)
      PROVE  /\ IsDict(specs[n].permissions)
             /\ \A i \in DOMAIN specs[n].permissions : specs[n].permissions[i].value \in Effects
  <2> DEFINE b == src.permissions
             o == src.agents[n].permissions
  <2>1. IsDict(b) /\ IsDict(o)
    BY <1>2, <1>3
  <2>2. /\ \A i \in DOMAIN b : b[i].value \in Effects
        /\ \A i \in DOMAIN o : o[i].value \in Effects
    BY <1>1 DEF AgentsLoad, FieldsLoad, PermissionsAccepted
  <2> HIDE DEF b, o
  <2>3. /\ IsDict(DeepMerge(b, o))
        /\ \A i \in 1..Len(DeepMerge(b, o)) : DeepMerge(b, o)[i].value \in Effects
    BY <2>1, <2>2, MergeFacts DEF MergedOver
  <2>4. specs[n].permissions = DeepMerge(b, o)
    BY <1>5 DEF b, o
  <2> HIDE DEF specs
  <2>5. QED
    BY <2>3, <2>4 DEF IsDict
<1>7. QED
  BY <1>3, <1>4, <1>6 DEF GoodSpecs, src

\* A permission about delegating decides as its effect says.
LEMMA WholeDecides ==
  ASSUME NEW e, e.key \in {"task", "subagent"}, NEW effect, e.value = Whole(effect),
         NEW m, NEW allowed, m \in allowed <=> effect = "allow"
  PROVE  Decided(EntryRules(e), m, allowed)
<1> DEFINE r == EntryRules(e)
<1>1. DOMAIN e.value = {1} /\ e.value[1] = [resource |-> "*", effect |-> effect]
  BY DEF Whole
<1>2. DOMAIN r = {1} /\ r[1].action = "subagent" /\ r[1].resource = "*" /\ r[1].effect = effect
  BY <1>1 DEF EntryRules
<1> HIDE DEF r
<1>3. Delegates(r, m) <=> effect = "allow"
  BY <1>2 DEF Delegates
<1>4. Matches(r[1], m) /\ 1 \in DOMAIN r
  BY <1>2 DEF Matches
<1>5. QED
  BY <1>3, <1>4 DEF Decided, r

\* An entry of subagent comes after one of task.
Overruled(p) == \E i, j \in DOMAIN p : i < j /\ p[i].key = "task" /\ p[j].key = "subagent"

\* render_config: an entry of task is replaced where it is, or comes last, and the graph
\* decides unless an entry of subagent comes after it.
LEMMA NativeDecides ==
  ASSUME NEW specs, GoodSpecs(specs), NEW n \in DOMAIN specs, NEW m \in DOMAIN specs,
         NEW allowed,
         m \in allowed <=>
           IF Overruled(specs[n].permissions)
           THEN Says(specs[n].permissions, "subagent", {"allow", "ask"})
           ELSE m \in Children(specs, n)
  PROVE  Decided(Rules(NativePermissions(specs, n)), m, allowed)
<1> DEFINE f == [v \in Effects |-> IF v = "ask" THEN "allow" ELSE v]
           p == specs[n].permissions
           own == [i \in DOMAIN p |-> [p[i] EXCEPT !.value = f[@]]]
           d == AsRules(own)
           T == TaskRules(specs, n)
           x == [key |-> "task", value |-> T]
           e == Put(d, "task", T)
           W == RuleValues(specs)
           kids == Children(specs, n)
<1>1. IsDict(p) /\ \A i \in DOMAIN p : p[i].value \in Effects
  BY DEF GoodSpecs
<1>2. NativePermissions(specs, n) = e
  <2>1. \A i \in DOMAIN p :
          [p[i] EXCEPT !.value = f[@]]
            = [p[i] EXCEPT !.value = IF @ = "ask" THEN "allow" ELSE @]
    BY <1>1
  <2>2. own = [i \in DOMAIN p |-> [p[i] EXCEPT !.value = IF @ = "ask" THEN "allow" ELSE @]]
    BY <2>1
  <2> HIDE DEF own
  <2>3. QED
    BY <2>2 DEF NativePermissions
<1>3. /\ \A v \in Effects : f[v] \in Effects
      /\ \A v \in Effects : f[v] = "allow" <=> v \in {"allow", "ask"}
  BY DEF Effects
<1> HIDE DEF f, p
<1>4. /\ IsDict(d) /\ Keys(d) = Keys(p) /\ DOMAIN d = DOMAIN p
      /\ \A i \in DOMAIN d : /\ d[i].value \in Seq(W) /\ d[i].key = p[i].key
                             /\ d[i].value = Whole(f[p[i].value])
  <2>1. Changed(own, p, f)
    BY <1>1 DEF IsDict, Range, Changed
  <2> HIDE DEF own
  <2>2. RulesOf(AsRules(own), p, f, specs)
    BY <1>1, <1>3, <2>1, AsRulesFacts
  <2>3. QED
    BY <2>2 DEF RulesOf
<1>5. T \in Seq(W) /\ Decided(EntryRules(x), m, kids)
  BY TaskDecides DEF GoodSpecs
<1> HIDE DEF own, d, T, x, W, kids, e
<1>6. /\ IsDict(e) /\ Len(d) \in Nat /\ Len(e) \in Nat
      /\ \A i \in 1..Len(d) : e[i] = IF d[i].key = "task" THEN x ELSE d[i]
      /\ Len(e) = Len(d) \/ (Len(e) = Len(d) + 1 /\ e[Len(e)] = x)
      /\ "task" \notin Keys(d) => Len(e) = Len(d) + 1
  <2>1. With(e, d, "task", x)
    BY <1>4, PutFacts DEF x, e
  <2>2. QED
    BY <2>1 DEF With
<1>7. m \in allowed <=> IF Overruled(p) THEN Says(p, "subagent", {"allow", "ask"})
                        ELSE m \in kids
  BY DEF p, kids
<1>8. /\ IsDict(e) /\ DOMAIN e = 1..Len(e) /\ Len(e) \in Nat
      /\ DOMAIN d = 1..Len(d) /\ Len(d) \in Nat
  BY <1>4, <1>6 DEF IsDict
<1>9. x.key = "task" /\ x.value = T
  BY DEF x
<1>10. ASSUME NEW i \in DOMAIN e PROVE e[i] = x \/ (i \in DOMAIN d /\ e[i] = d[i])
  <2>1. i \in DOMAIN d \/ (i \notin 1..Len(d) /\ i \in 1..Len(e))
    BY <1>8
  <2>2. CASE i \in DOMAIN d
    BY <1>6, <1>8, <2>2
  <2>3. CASE i \notin 1..Len(d) /\ i \in 1..Len(e)
    <3>1. Len(e) # Len(d)
      BY <2>3
    <3>2. Len(e) = Len(d) + 1 /\ e[Len(e)] = x
      BY <1>6, <3>1
    <3>3. i = Len(e)
      BY <1>8, <2>3, <3>2
    <3>4. QED
      BY <3>2, <3>3
  <2>4. QED
    BY <2>1, <2>2, <2>3
<1>11. \A i \in DOMAIN e : e[i].value \in Seq(W)
  BY <1>4, <1>5, <1>9, <1>10
<1>12. CASE "task" \in Keys(d)
  <2>1. PICK t \in DOMAIN d : d[t].key = "task"
    BY <1>12 DEF Keys
  <2>2. t \in DOMAIN e /\ e[t] = x
    <3>1. Len(e) = Len(d) \/ Len(e) = Len(d) + 1
      BY <1>6
    <3>2. t \in 1..Len(d)
      BY <1>8, <2>1
    <3>3. t \in 1..Len(e)
      <4>1. Len(d) \in Nat /\ Len(e) \in Nat
        BY <1>6
      <4>2. QED
        BY <3>1, <3>2, <4>1
    <3>4. QED
      BY <1>6, <1>8, <2>1, <3>2, <3>3
  <2>3. \A i \in DOMAIN e : i # t => i \in DOMAIN d /\ e[i] = d[i] /\ d[i].key # "task"
    <3>1. \A i \in DOMAIN d : i # t => d[i].key # "task"
      BY <1>4, <2>1 DEF IsDict
    <3>2. \A i \in DOMAIN e : e[i].key = "task" => i = t
      BY <1>6, <1>9, <2>2 DEF IsDict
    <3>3. ASSUME Len(e) = Len(d) + 1, e[Len(e)] = x PROVE FALSE
      <4>1. Len(e) \in DOMAIN e /\ Len(e) # t
        BY <1>8, <2>1, <3>3
      <4>2. QED
        BY <1>9, <3>2, <3>3, <4>1
    <3>4. Len(e) = Len(d)
      BY <1>6, <3>3
    <3>5. QED
      BY <1>6, <1>8, <3>1, <3>4
  <2>4. CASE Overruled(p)
    <3>1. PICK c, j \in DOMAIN p : c < j /\ p[c].key = "task" /\ p[j].key = "subagent"
      BY <2>4 DEF Overruled
    <3>2. c = t /\ t < j
      BY <1>4, <2>1, <3>1 DEF IsDict
    <3>3. j \in DOMAIN e /\ e[j] = d[j]
      <4>1. j \in 1..Len(d) /\ t \in 1..Len(d)
        BY <1>4, <1>8, <2>1, <3>1
      <4>2. Len(e) = Len(d) \/ Len(e) = Len(d) + 1
        BY <1>6
      <4>3. Len(d) \in Nat /\ Len(e) \in Nat /\ t < j
        BY <1>8, <3>2
      <4>4. j \in 1..Len(e) /\ j # t
        BY <4>1, <4>2, <4>3
      <4>5. QED
        BY <1>8, <2>3, <4>4
    <3>4. e[j].key = "subagent" /\ e[j].value = Whole(f[p[j].value])
      BY <1>4, <3>1, <3>3
    <3>5. m \in allowed <=> f[p[j].value] = "allow"
      <4>1. \A i \in DOMAIN p : p[i].key = "subagent" => i = j
        BY <1>1, <3>1 DEF IsDict
      <4>2. m \in allowed <=> p[j].value \in {"allow", "ask"}
        BY <1>7, <2>4, <3>1, <4>1 DEF Says
      <4>3. QED
        BY <1>1, <1>3, <4>2
    <3>6. Decided(EntryRules(e[j]), m, allowed)
      BY <3>4, <3>5, WholeDecides
    <3>7. \A i \in DOMAIN e : i # j /\ i # t => e[i].key \notin {"task", "subagent"}
      BY <1>1, <1>4, <2>3, <3>1 DEF IsDict
    <3>8. \A i \in DOMAIN e : \/ i < j
                              \/ e[i].key \notin {"task", "subagent"}
                              \/ Decided(EntryRules(e[i]), m, allowed)
      BY <3>2, <3>6, <3>7
    <3>9. QED
      BY <1>2, <1>8, <1>11, <3>3, <3>6, <3>8, RulesDecided
  <2>5. CASE ~Overruled(p)
    <3>1. Decided(EntryRules(e[t]), m, allowed)
      BY <1>5, <1>7, <2>2, <2>5 DEF Decided
    <3>2. ASSUME NEW i \in DOMAIN e, e[i].key \in {"task", "subagent"}, i # t PROVE i < t
      <4>1. i \in DOMAIN p /\ t \in DOMAIN p /\ p[i].key = "subagent" /\ p[t].key = "task"
        BY <1>4, <2>1, <2>3, <3>2
      <4>2. ~(t < i)
        BY <2>5, <4>1 DEF Overruled
      <4>3. QED
        BY <1>8, <2>1, <3>2, <4>2
    <3>3. \A i \in DOMAIN e : \/ i < t
                              \/ e[i].key \notin {"task", "subagent"}
                              \/ Decided(EntryRules(e[i]), m, allowed)
      BY <3>1, <3>2
    <3>4. QED
      BY <1>2, <1>8, <1>11, <2>2, <3>1, <3>3, RulesDecided
  <2>6. QED
    BY <2>4, <2>5
<1>13. CASE "task" \notin Keys(d)
  <2>1. Len(e) = Len(d) + 1 /\ e[Len(e)] = x
    <3>1. "task" \notin Keys(d)
      BY <1>13
    <3>2. Len(e) = Len(d) + 1
      BY <1>6, <3>1
    <3>3. Len(e) # Len(d)
      BY <1>6, <3>2
    <3>4. QED
      BY <1>6, <3>2, <3>3
  <2>2. Len(e) \in DOMAIN e /\ \A i \in DOMAIN e : i < Len(e) \/ e[i] = x
    BY <1>8, <2>1
  <2>3. ~Overruled(p)
    BY <1>4, <1>13 DEF Overruled, Keys
  <2>4. Decided(EntryRules(x), m, allowed)
    BY <1>5, <1>7, <2>3 DEF Decided
  <2>5. QED
    BY <1>2, <1>8, <1>11, <2>1, <2>2, <2>4, RulesDecided
<1>14. QED
  BY <1>12, <1>13

\* v1_permissions: the entry of task comes first and is that of the graph unless the
\* permissions have one; an entry of subagent comes after it.
LEMMA V1Decides ==
  ASSUME NEW specs, GoodSpecs(specs), NEW n \in DOMAIN specs, NEW m \in DOMAIN specs,
         NEW allowed,
         m \in allowed <=>
           IF "subagent" \in Keys(specs[n].permissions)
           THEN Says(specs[n].permissions, "subagent", {"allow"})
           ELSE IF "task" \in Keys(specs[n].permissions)
           THEN Says(specs[n].permissions, "task", {"allow"})
           ELSE m \in Children(specs, n)
  PROVE  Decided(Rules(V1Permissions(specs, n)), m, allowed)
<1> DEFINE f == [v \in Effects |-> v]
           p == specs[n].permissions
           own == [i \in DOMAIN p |-> [p[i] EXCEPT !.value = f[@]]]
           o == AsRules(p)
           T == TaskRules(specs, n)
           x == [key |-> "task", value |-> T]
           b == <<x>>
           d == DeepMerge(b, o)
           W == RuleValues(specs)
           kids == Children(specs, n)
<1>1. IsDict(p) /\ \A i \in DOMAIN p : p[i].value \in Effects
  BY DEF GoodSpecs
<1>2. V1Permissions(specs, n) = d
  BY DEF V1Permissions
<1>3. \A v \in Effects : f[v] = v
  OBVIOUS
<1> HIDE DEF f, p
<1>4. AsRules(own) = o
  <2>1. ASSUME NEW i \in DOMAIN p
        PROVE  [own[i] EXCEPT !.value = Whole(@)] = [p[i] EXCEPT !.value = Whole(@)]
    <3>1. own[i] = [p[i] EXCEPT !.value = p[i].value]
      BY <1>1, <1>3
    <3>2. "value" \in DOMAIN p[i] /\ DOMAIN own[i] = DOMAIN p[i] /\ own[i].value = p[i].value
      BY <1>1, <3>1 DEF IsDict
    <3>3. QED
      BY <3>1, <3>2
  <2>2. DOMAIN own = DOMAIN p
    OBVIOUS
  <2> HIDE DEF own
  <2>3. QED
    BY <2>1, <2>2 DEF AsRules
<1>5. /\ IsDict(o) /\ Keys(o) = Keys(p) /\ DOMAIN o = DOMAIN p
      /\ \A i \in DOMAIN o : /\ o[i].value \in Seq(W) /\ o[i].key = p[i].key
                             /\ o[i].value = Whole(p[i].value)
  <2>1. \A v \in Effects : f[v] \in Effects
    BY <1>3
  <2>2. Changed(own, p, f)
    BY <1>1 DEF IsDict, Range, Changed
  <2> HIDE DEF own
  <2> DEFINE q == AsRules(own)
  <2>3. RulesOf(q, p, f, specs)
    BY <1>1, <2>1, <2>2, AsRulesFacts
  <2>4. q = o
    BY <1>4
  <2> HIDE DEF q, o
  <2>5. \A i \in DOMAIN p : f[p[i].value] = p[i].value
    BY <1>1, <1>3
  <2>6. QED
    BY <2>3, <2>4, <2>5 DEF RulesOf
<1>6. T \in Seq(W) /\ Decided(EntryRules(x), m, kids)
  BY TaskDecides DEF GoodSpecs
<1> HIDE DEF own, o, T, W, kids
<1>7. x.key = "task" /\ x.value = T /\ {"key", "value"} \subseteq DOMAIN x
  OBVIOUS
<1> HIDE DEF x
<1>8. IsDict(b) /\ Len(b) = 1 /\ b[1] = x /\ DOMAIN b = {1}
  <2>1. b \in Seq({x}) /\ Len(b) = 1 /\ b[1] = x /\ DOMAIN b = {1}
    OBVIOUS
  <2>2. b \in Seq(Range(b))
    BY <2>1, RangeSeq
  <2>3. QED
    BY <1>7, <2>1, <2>2 DEF IsDict
<1>9. \A i \in DOMAIN b : b[i].value \in Seq(W)
  BY <1>6, <1>7, <1>8
<1> HIDE DEF b
<1>10. /\ IsDict(d) /\ Len(d) \in Nat /\ 1 <= Len(d) /\ DOMAIN d = 1..Len(d)
       /\ "task" \notin Keys(o) => d[1] = x
       /\ d[1].key = "task"
       /\ \A i \in 1..Len(d) : d[i].value \in Seq(W)
       /\ \A j \in DOMAIN o : Has(d, o[j])
       /\ \A i \in 1..Len(d) : i # 1 => d[i].key \in Keys(o)
  <2>1. /\ IsDict(d) /\ Len(d) \in Nat /\ Len(b) <= Len(d)
        /\ \A i \in 1..Len(b) : b[i].key \notin Keys(o) => d[i] = b[i]
        /\ \A i \in 1..Len(b) : d[i].key = b[i].key
        /\ \A i \in (Len(b) + 1)..Len(d) : d[i].key \in Keys(o)
        /\ \A i \in 1..Len(d) : d[i].value \in Seq(W)
        /\ \A j \in 1..Len(o) : Has(d, o[j])
    <3>1. d = DeepMerge(b, o)
      OBVIOUS
    <3>2. DOMAIN o = 1..Len(o)
      BY <1>5 DEF IsDict
    <3> HIDE DEF d
    <3>3. IsDict(b) /\ IsDict(o)
      BY <1>5, <1>8
    <3>4. \A i \in DOMAIN o : o[i].value \in Seq(W)
      BY <1>5
    <3>5. MergedOver(d, b, o, Seq(W))
      BY <1>9, <3>1, <3>3, <3>4, MergeFacts
    <3>6. QED
      BY <3>5 DEF MergedOver
  <2> HIDE DEF d
  <2>2. 1 \in 1..Len(b) /\ b[1] = x
    BY <1>8
  <2>3. \A i \in 1..Len(d) : i # 1 => i \in (Len(b) + 1)..Len(d)
    BY <1>8, <2>1
  <2>4. DOMAIN o = 1..Len(o) /\ DOMAIN d = 1..Len(d)
    BY <1>5, <2>1 DEF IsDict
  <2>5. QED
    BY <1>7, <1>8, <2>1, <2>2, <2>3, <2>4
<1> HIDE DEF d
<1>11. m \in allowed <=> IF "subagent" \in Keys(p) THEN Says(p, "subagent", {"allow"})
                         ELSE IF "task" \in Keys(p) THEN Says(p, "task", {"allow"})
                         ELSE m \in kids
  BY DEF p, kids
\* An entry of o is in d, and alone decides what its key does.
<1>12. ASSUME NEW key \in {"task", "subagent"}, NEW j \in DOMAIN p, p[j].key = key,
              m \in allowed <=> Says(p, key, {"allow"})
       PROVE  \E t \in DOMAIN d : d[t].key = key /\ Decided(EntryRules(d[t]), m, allowed)
  <2>1. j \in DOMAIN o /\ o[j].key = key /\ o[j].value = Whole(p[j].value)
    BY <1>5, <1>12
  <2>2. PICK t \in 1..Len(d) : d[t].key = key /\ d[t].value = Whole(p[j].value)
    BY <1>10, <2>1 DEF Has
  <2>3. m \in allowed <=> p[j].value = "allow"
    <3>1. \A i \in DOMAIN p : p[i].key = key => i = j
      BY <1>1, <1>12 DEF IsDict
    <3>2. QED
      BY <1>12, <3>1 DEF Says
  <2>4. Decided(EntryRules(d[t]), m, allowed)
    BY <1>12, <2>2, <2>3, WholeDecides
  <2>5. QED
    BY <1>10, <2>2, <2>4
<1>13. \A i \in DOMAIN d : i # 1 => d[i].key # "task"
  BY <1>10 DEF IsDict
<1>14. CASE "subagent" \in Keys(p)
  <2>1. PICK j \in DOMAIN p : p[j].key = "subagent"
    BY <1>14 DEF Keys
  <2>2. PICK t \in DOMAIN d : d[t].key = "subagent" /\ Decided(EntryRules(d[t]), m, allowed)
    BY <1>11, <1>12, <1>14, <2>1
  <2>3. \A i \in DOMAIN d : d[i].key = "subagent" => i = t
    BY <1>10, <2>2 DEF IsDict
  <2>4. t # 1 /\ 1 < t
    BY <1>10, <2>2
  <2>5. \A i \in DOMAIN d : \/ i < t
                            \/ d[i].key \notin {"task", "subagent"}
                            \/ Decided(EntryRules(d[i]), m, allowed)
    BY <1>13, <2>2, <2>3, <2>4
  <2>6. QED
    BY <1>2, <1>10, <2>2, <2>5, RulesDecided
<1>15. CASE "subagent" \notin Keys(p)
  <2>1. \A i \in DOMAIN d : i # 1 => d[i].key \notin {"task", "subagent"}
    BY <1>5, <1>10, <1>13, <1>15
  <2>2. Decided(EntryRules(d[1]), m, allowed)
    <3>1. CASE "task" \in Keys(p)
      <4>1. PICK j \in DOMAIN p : p[j].key = "task"
        BY <3>1 DEF Keys
      <4>2. PICK t \in DOMAIN d : d[t].key = "task" /\ Decided(EntryRules(d[t]), m, allowed)
        BY <1>11, <1>12, <1>15, <3>1, <4>1
      <4>3. t = 1
        BY <1>13, <4>2
      <4>4. QED
        BY <4>2, <4>3
    <3>2. CASE "task" \notin Keys(p)
      BY <1>5, <1>6, <1>10, <1>11, <1>15, <3>2 DEF Decided
    <3>3. QED
      BY <3>1, <3>2
  <2>3. 1 \in DOMAIN d
    BY <1>10
  <2>4. \A i \in DOMAIN d : \/ i < 1
                            \/ d[i].key \notin {"task", "subagent"}
                            \/ Decided(EntryRules(d[i]), m, allowed)
    BY <2>1, <2>2
  <2>5. QED
    BY <1>2, <1>10, <2>2, <2>3, <2>4, RulesDecided
<1>16. QED
  BY <1>14, <1>15

\* A run that goes on has loaded its agents (load_normalized_agents).  For these the last
\* rule about delegating to an agent is known, whatever the permissions of the agent and
\* of the defaults are: native_config.render_config lets an agent delegate to its children
\* and to nobody else, or to whom its subagent permission says when a task permission
\* comes before that; v1_permissions likewise unless they name delegation at all.
THEOREM DelegationDecided == Spec => []DelegationFollowsGraph
PROOF
  <1>1. SyncInvariant => DelegationFollowsGraph
    <2> SUFFICES ASSUME run.source \in Loadable
                 PROVE  DelegationFollowsGraph
      BY DEF SyncInvariant, Stages, DelegationFollowsGraph
    <2> DEFINE specs == Specs(Sources[run.source])
    <2>1. GoodSpecs(specs)
      BY LoadableSpecs
    <2> HIDE DEF specs
    <2> DEFINE p(n) == specs[n].permissions
               child(n, m) == m \in Children(specs, n)
               native(n, m) == IF Overruled(p(n)) THEN Says(p(n), "subagent", {"allow", "ask"})
                               ELSE child(n, m)
               v1(n, m) == IF "subagent" \in Keys(p(n)) THEN Says(p(n), "subagent", {"allow"})
                           ELSE IF "task" \in Keys(p(n)) THEN Says(p(n), "task", {"allow"})
                           ELSE child(n, m)
    <2>2. ASSUME NEW n \in DOMAIN specs, NEW m \in DOMAIN specs
          PROVE  Delegates(Rules(NativePermissions(specs, n)), m) <=> native(n, m)
      <3> DEFINE allowed == {a \in {m} : native(n, m)}
      <3>1. m \in allowed <=> native(n, m)
        OBVIOUS
      <3> HIDE DEF allowed
      <3>2. Decided(Rules(NativePermissions(specs, n)), m, allowed)
        BY <2>1, <3>1, NativeDecides
      <3> QED
        BY <3>1, <3>2 DEF Decided
    <2>3. ASSUME NEW n \in DOMAIN specs, NEW m \in DOMAIN specs
          PROVE  Delegates(Rules(V1Permissions(specs, n)), m) <=> v1(n, m)
      <3> DEFINE allowed == {a \in {m} : v1(n, m)}
      <3>1. m \in allowed <=> v1(n, m)
        OBVIOUS
      <3> HIDE DEF allowed
      <3>2. Decided(Rules(V1Permissions(specs, n)), m, allowed)
        BY <2>1, <3>1, V1Decides
      <3> QED
        BY <3>1, <3>2 DEF Decided
    <2> QED
      BY <2>2, <2>3 DEF DelegationFollowsGraph, Overruled, specs
  <1> QED
    BY SyncInductive, <1>1, PTL

-----------------------------------------------------------------------------
(* The search for cycles *)

\* After is the sequence of states between visits that are made in turn.
After(after, visit, names, seen, n) ==
  after = [i \in 0..n |->
             IF i = 0 THEN seen
             ELSE IF after[i - 1].ok THEN visit[names[i]][after[i - 1]]
             ELSE after[i - 1]]

LEMMA AfterExists ==
  ASSUME NEW visit, NEW names, NEW seen
  PROVE  \A n \in Nat : \E after : After(after, visit, names, seen, n)
<1> DEFINE P == {n \in Nat : \E after : After(after, visit, names, seen, n)}
<1>1. 0 \in P
  <2>1. After([i \in 0..0 |-> seen], visit, names, seen, 0)
    BY DEF After
  <2>2. QED
    BY <2>1
<1>2. ASSUME NEW n \in Nat, n \in P PROVE n + 1 \in P
  <2>1. PICK after : After(after, visit, names, seen, n)
    BY <1>2
  <2> DEFINE last == IF after[n].ok THEN visit[names[n + 1]][after[n]] ELSE after[n]
             more == [i \in 0..(n + 1) |-> IF i = n + 1 THEN last ELSE after[i]]
  <2>2. After(more, visit, names, seen, n + 1)
    <3>1. \A i \in 0..n :
            after[i] = IF i = 0 THEN seen
                       ELSE IF after[i - 1].ok THEN visit[names[i]][after[i - 1]]
                       ELSE after[i - 1]
      BY <2>1 DEF After
    <3>2. ASSUME NEW i \in 0..(n + 1)
          PROVE  more[i] = IF i = 0 THEN seen
                           ELSE IF more[i - 1].ok THEN visit[names[i]][more[i - 1]]
                           ELSE more[i - 1]
      <4>1. CASE i = n + 1
        <5>1. i # 0 /\ i - 1 = n /\ more[i - 1] = after[n] /\ more[i] = last
          BY <4>1
        <5>2. QED
          BY <4>1, <5>1
      <4>2. CASE i \in 0..n
        <5>1. i # 0 => i - 1 \in 0..n /\ i - 1 # n + 1 /\ more[i - 1] = after[i - 1]
          BY <4>2
        <5>2. more[i] = after[i]
          BY <4>2
        <5>3. QED
          BY <3>1, <4>2, <5>1, <5>2
      <4>3. QED
        BY <3>2, <4>1, <4>2
    <3>3. more = [i \in 0..(n + 1) |-> more[i]]
      OBVIOUS
    <3> HIDE DEF more
    <3>4. QED
      BY <3>2, <3>3 DEF After
  <2>3. QED
    BY <2>2
<1> HIDE DEF P
<1>3. Nat \subseteq P
  BY <1>1, <1>2, SetInduction
<1>4. QED
  BY <1>3 DEF P

\* What InTurn goes through.
Taken(after, visit, names, seen) ==
  /\ InTurn(visit, names, seen) = after[Len(names)]
  /\ after[0] = seen
  /\ \A i \in 1..Len(names) :
       after[i] = IF after[i - 1].ok THEN visit[names[i]][after[i - 1]] ELSE after[i - 1]

LEMMA InTurnIs ==
  ASSUME NEW visit, NEW S, NEW names \in Seq(S), NEW seen
  PROVE  \E after : Taken(after, visit, names, seen)
<1> DEFINE n == Len(names)
           after == CHOOSE f : After(f, visit, names, seen, n)
<1>1. n \in Nat
  OBVIOUS
<1>2. After(after, visit, names, seen, n)
  BY <1>1, AfterExists
<1>3. InTurn(visit, names, seen) = after[n]
  BY DEF InTurn, After
<1> HIDE DEF after, n
<1>4. \A i \in 0..n :
        after[i] = IF i = 0 THEN seen
                   ELSE IF after[i - 1].ok THEN visit[names[i]][after[i - 1]]
                   ELSE after[i - 1]
  BY <1>2 DEF After
<1>5. after[0] = seen /\ \A i \in 1..n : i # 0 /\ i \in 0..n
  BY <1>1, <1>4
<1>6. QED
  BY <1>3, <1>4, <1>5 DEF n, Taken

\* What every visit from a state of G keeps in G stays in G.
LEMMA InTurnKeeps ==
  ASSUME NEW visit, NEW S, NEW names \in Seq(S), NEW G, NEW seen \in G,
         \A n \in S, s \in G : s.ok => visit[n][s] \in G
  PROVE  InTurn(visit, names, seen) \in G
<1>1. PICK after : Taken(after, visit, names, seen)
  BY InTurnIs
<1> DEFINE P == {i \in Nat : i <= Len(names) => after[i] \in G}
<1>2. 0 \in P
  BY <1>1 DEF Taken
<1>3. ASSUME NEW i \in Nat, i \in P PROVE i + 1 \in P
  <2>1. SUFFICES ASSUME i + 1 <= Len(names) PROVE after[i + 1] \in G
    OBVIOUS
  <2>2. i + 1 \in 1..Len(names) /\ (i + 1) - 1 = i /\ Len(names) \in Nat
    BY <2>1
  <2>3. after[i] \in G
    BY <1>3, <2>1, <2>2
  <2>4. after[i + 1] = IF after[i].ok THEN visit[names[i + 1]][after[i]]
                       ELSE after[i]
    BY <1>1, <2>2 DEF Taken
  <2>5. names[i + 1] \in S
    BY <2>2
  <2>6. QED
    BY <2>3, <2>4, <2>5
<1> HIDE DEF P
<1>4. Len(names) \in P
  <2>1. Len(names) \in Nat
    OBVIOUS
  <2>2. QED
    BY <1>2, <1>3, <2>1, SetInduction
<1>5. QED
  BY <1>1, <1>4 DEF P, Taken

\* The states of a search, and the visits below the agents being visited.
Searches(specs) == [ok : BOOLEAN, visited : SUBSET DOMAIN specs]

Visit(specs, f, visiting) ==
  [n \in DOMAIN specs |->
     [seen \in Searches(specs) |->
        IF n \in visiting THEN [seen EXCEPT !.ok = FALSE]
        ELSE IF n \in seen.visited THEN seen
        ELSE [InTurn(f[visiting \cup {n}], SetToSeq(Children(specs, n)), seen)
                EXCEPT !.visited = @ \cup {n}]]]

IsSearch(specs, visit) ==
  visit = [visiting \in SUBSET DOMAIN specs |-> Visit(specs, visit, visiting)]

LEMMA VisitAgrees ==
  ASSUME NEW specs, NEW f, NEW g, NEW visiting,
         \A n \in DOMAIN specs \ visiting : g[visiting \cup {n}] = f[visiting \cup {n}]
  PROVE  Visit(specs, g, visiting) = Visit(specs, f, visiting)
<1> DEFINE row(h, n) ==
             [seen \in Searches(specs) |->
                IF n \in visiting THEN [seen EXCEPT !.ok = FALSE]
                ELSE IF n \in seen.visited THEN seen
                ELSE [InTurn(h[visiting \cup {n}], SetToSeq(Children(specs, n)), seen)
                        EXCEPT !.visited = @ \cup {n}]]
<1>1. ASSUME NEW n \in DOMAIN specs PROVE row(g, n) = row(f, n)
  <2>1. CASE n \in visiting
    BY <2>1
  <2>2. CASE n \notin visiting
    <3>1. g[visiting \cup {n}] = f[visiting \cup {n}]
      BY <2>2
    <3>2. QED
      BY <3>1
  <2>3. QED
    BY <2>1, <2>2
<1>2. Visit(specs, g, visiting) = [n \in DOMAIN specs |-> row(g, n)]
      /\ Visit(specs, f, visiting) = [n \in DOMAIN specs |-> row(f, n)]
  BY DEF Visit
<1> HIDE DEF row
<1>3. QED
  BY <1>1, <1>2

\* The search is well defined, as each visit goes on with one more agent being visited.
LEMMA SearchExists ==
  ASSUME NEW specs, IsFiniteSet(DOMAIN specs)
  PROVE  \E visit : IsSearch(specs, visit)
<1> DEFINE D == DOMAIN specs
           left(V) == Cardinality(D \ V)
           upTo(f, k) == \A V \in SUBSET D : left(V) <= k => f[V] = Visit(specs, f, V)
           P == {k \in Nat : \E f : upTo(f, k)}
<1> HIDE DEF left
<1>1. \A V \in SUBSET D : left(V) \in Nat
  BY FS_Subset, FS_CardinalityType DEF left
<1>2. ASSUME NEW V \in SUBSET D, NEW n \in D \ V
      PROVE  V \cup {n} \in SUBSET D /\ left(V \cup {n}) < left(V)
  <2>1. D \ (V \cup {n}) = (D \ V) \ {n}
    OBVIOUS
  <2>2. left(V \cup {n}) = left(V) - 1
    BY <1>2, <2>1, FS_Subset, FS_RemoveElement DEF left
  <2>3. V \cup {n} \in SUBSET D
    BY <1>2
  <2>4. QED
    BY <1>1, <2>2, <2>3
<1> HIDE DEF D
<1>3. ASSUME NEW f, NEW k \in Nat, NEW g,
             \A V \in SUBSET D : left(V) < k => f[V] = Visit(specs, f, V),
             g = [V \in SUBSET D |-> Visit(specs, f, V)]
      PROVE  upTo(g, k)
  <2>1. SUFFICES ASSUME NEW V \in SUBSET D, left(V) <= k
                 PROVE  g[V] = Visit(specs, g, V)
    OBVIOUS
  <2>2. \A n \in D \ V : g[V \cup {n}] = f[V \cup {n}]
    <3>1. SUFFICES ASSUME NEW n \in D \ V PROVE g[V \cup {n}] = f[V \cup {n}]
      OBVIOUS
    <3>2. V \cup {n} \in SUBSET D /\ left(V \cup {n}) < k
      <4>1. V \cup {n} \in SUBSET D /\ left(V \cup {n}) < left(V)
        BY <1>2, <2>1, <3>1
      <4>2. QED
        BY <1>1, <2>1, <4>1
    <3>3. QED
      BY <1>3, <3>1, <3>2
  <2>3. Visit(specs, g, V) = Visit(specs, f, V)
    BY <2>2, VisitAgrees DEF D
  <2>4. QED
    BY <1>3, <2>3
<1>4. 0 \in P
  <2>1. \A V \in SUBSET D : ~(left(V) < 0)
    BY <1>1
  <2>2. PICK f, g : g = [V \in SUBSET D |-> Visit(specs, f, V)]
    OBVIOUS
  <2>3. upTo(g, 0)
    <3> HIDE DEF upTo
    <3>1. QED
      BY <1>3, <2>1, <2>2
  <2>4. QED
    BY <2>3
<1>5. ASSUME NEW k \in Nat, k \in P PROVE k + 1 \in P
  <2>1. PICK f : upTo(f, k)
    BY <1>5
  <2>2. \A V \in SUBSET D : left(V) < k + 1 => f[V] = Visit(specs, f, V)
    BY <1>1, <2>1
  <2>3. PICK g : g = [V \in SUBSET D |-> Visit(specs, f, V)]
    OBVIOUS
  <2>4. upTo(g, k + 1)
    <3> HIDE DEF upTo
    <3>1. QED
      BY <1>3, <2>2, <2>3
  <2>5. QED
    BY <2>4
<1>6. PICK k \in Nat : \A V \in SUBSET D : left(V) <= k
  <2>1. Cardinality(D) \in Nat
    BY FS_CardinalityType DEF D
  <2>2. \A V \in SUBSET D : left(V) <= Cardinality(D)
    BY FS_Subset DEF D, left
  <2>3. QED
    BY <2>1, <2>2
<1>7. k \in P
  <2> HIDE DEF P
  <2>1. QED
    BY <1>4, <1>5, SetInduction
<1>8. PICK f : \A V \in SUBSET D : f[V] = Visit(specs, f, V)
  BY <1>6, <1>7
<1> DEFINE g == [V \in SUBSET D |-> f[V]]
<1>9. ASSUME NEW V \in SUBSET D PROVE Visit(specs, g, V) = f[V]
  <2>1. \A n \in D \ V : V \cup {n} \in SUBSET D /\ g[V \cup {n}] = f[V \cup {n}]
    OBVIOUS
  <2> HIDE DEF g
  <2>2. QED
    BY <1>8, <2>1, VisitAgrees DEF D
<1>10. g = [V \in SUBSET D |-> Visit(specs, g, V)]
  BY <1>9
<1> HIDE DEF g
<1>11. QED
  BY <1>10 DEF IsSearch, D

\* A visit finds no cycle if none of those below it does.
LEMMA VisitQuiet ==
  ASSUME NEW specs, IsFiniteSet(DOMAIN specs), NEW f, IsSearch(specs, f),
         NEW V \in SUBSET DOMAIN specs, NEW n \in DOMAIN specs \ V,
         NEW G, G = {s \in Searches(specs) : s.ok}, NEW s \in G,
         \A c \in Children(specs, n), t \in G : f[V \cup {n}][c][t] \in G
  PROVE  f[V][n][s] \in G
<1> DEFINE cs == SetToSeq(Children(specs, n))
           visit == f[V \cup {n}]
           r == InTurn(visit, cs, s)
<1>1. f[V][n][s] = IF n \in s.visited THEN s ELSE [r EXCEPT !.visited = @ \cup {n}]
  <2>1. f[V] = Visit(specs, f, V)
    BY DEF IsSearch
  <2>2. Visit(specs, f, V)[n][s] =
          IF n \in V THEN [s EXCEPT !.ok = FALSE]
          ELSE IF n \in s.visited THEN s ELSE [r EXCEPT !.visited = @ \cup {n}]
    <3> HIDE DEF r
    <3>1. QED
      BY DEF Visit, r, visit, cs
  <2>3. QED
    BY <2>1, <2>2
<1>2. cs \in Seq(Children(specs, n))
  <2>1. IsFiniteSet(Children(specs, n))
    BY FS_Subset DEF Children
  <2>2. QED
    BY <2>1, SetToSeqFacts
<1>3. \A c \in Children(specs, n), t \in G : t.ok => visit[c][t] \in G
  OBVIOUS
<1> HIDE DEF cs, visit
<1>4. r \in G
  BY <1>2, <1>3, InTurnKeeps
<1> HIDE DEF r
<1>5. [r EXCEPT !.visited = @ \cup {n}] \in G
  BY <1>4 DEF Searches
<1>6. QED
  BY <1>1, <1>5

\* Where no chain has three delegations, visit finds no cycle.
LEMMA NoCycle ==
  ASSUME NEW specs, IsFiniteSet(DOMAIN specs),
         \A a, b, c, d \in DOMAIN specs :
           ~(b \in Children(specs, a) /\ c \in Children(specs, b) /\ d \in Children(specs, c))
  PROVE  Acyclic(specs)
<1> DEFINE D == DOMAIN specs
           G == {s \in Searches(specs) : s.ok}
           none == [ok |-> TRUE, visited |-> {}]
           f == CHOOSE visit : IsSearch(specs, visit)
           kids(n) == Children(specs, n)
<1>1. IsSearch(specs, f)
  BY SearchExists
<1>2. Acyclic(specs) <=> InTurn(f[{}], SetToSeq(D), none).ok
  BY DEF Acyclic, IsSearch, Visit, Searches
<1> HIDE DEF f
<1>3. \A n : kids(n) \subseteq D
  BY DEF Children
<1> HIDE DEF kids
<1>4. \A a, b, c, d \in D : ~(b \in kids(a) /\ c \in kids(b) /\ d \in kids(c))
  BY DEF kids
<1> HIDE DEF D
<1>5. ASSUME NEW V \in SUBSET D, NEW n \in D \ V, NEW s \in G,
             \A c \in kids(n), t \in G : f[V \cup {n}][c][t] \in G
      PROVE  f[V][n][s] \in G
  <2> HIDE DEF G
  <2>1. QED
    BY <1>1, <1>5, VisitQuiet DEF G, D, kids
<1> HIDE DEF G
<1>6. ASSUME NEW a \in D, NEW b \in kids(a), NEW c \in kids(b), NEW s \in G
      PROVE  f[{a, b}][c][s] \in G
  <2>1. b \in D /\ c \in D /\ a \in D
    BY <1>3, <1>6
  <2>2. kids(c) = {}
    BY <1>3, <1>4, <1>6, <2>1
  <2>3. c # a /\ c # b
    BY <1>4, <1>6, <2>1
  <2>4. {a, b} \in SUBSET D /\ c \in D \ {a, b}
    BY <2>1, <2>3
  <2>5. QED
    BY <1>5, <1>6, <2>2, <2>4
<1>7. ASSUME NEW a \in D, NEW b \in kids(a), NEW s \in G
      PROVE  f[{a}][b][s] \in G
  <2>1. b \in D /\ b # a
    BY <1>3, <1>4, <1>7
  <2>2. {a} \in SUBSET D /\ b \in D \ {a} /\ {a} \cup {b} = {a, b}
    BY <1>7, <2>1
  <2>3. QED
    BY <1>5, <1>6, <1>7, <2>2
<1>8. ASSUME NEW a \in D, NEW s \in G
      PROVE  f[{}][a][s] \in G
  <2>1. {} \in SUBSET D /\ a \in D \ {} /\ {} \cup {a} = {a}
    BY <1>8
  <2>2. QED
    BY <1>5, <1>7, <1>8, <2>1
<1>9. none \in G
  BY DEF G, Searches
<1>10. SetToSeq(D) \in Seq(D)
  BY SetToSeqFacts DEF D
<1>11. InTurn(f[{}], SetToSeq(D), none) \in G
  BY <1>8, <1>9, <1>10, InTurnKeeps
<1>12. QED
  BY <1>2, <1>11 DEF G

\* Whatever is routed passes _validate_graph, whatever order agents are visited in.
LEMMA RoutedIsAccepted ==
  ASSUME NEW s \in DOMAIN Sources, NamesAccepted(Sources[s]), Routed(Sources[s])
  PROVE  GraphAccepted(Specs(Sources[s]))
<1> DEFINE src == Sources[s]
           specs == Specs(src)
           D == DOMAIN specs
           primary == {n \in D : specs[n].mode = "primary"}
           root == CHOOSE n \in primary : TRUE
           L1 == Below(specs, {root})
           L2 == Below(specs, L1)
           parents(n) == Range(src.agents[n].parents)
<1>1. /\ Agents(src) = D
      /\ IsFiniteSet(D)
      /\ \A n \in D :
           specs[n].mode = src.agents[n].mode /\ specs[n].parents = src.agents[n].parents
  BY SpecsFacts
<1>2. /\ primary = {root} /\ src.agents[root].parents = <<>>
      /\ \A n \in D : \E len \in 1..3 : \E c \in Chains(src, len) : c[1] = root /\ c[len] = n
  <2>1. PICK r \in D :
          /\ {n \in D : src.agents[n].mode = "primary"} = {r}
          /\ src.agents[r].parents = <<>>
          /\ \A n \in D : \E len \in 1..3 : \E c \in Chains(src, len) : c[1] = r /\ c[len] = n
    BY <1>1 DEF Routed
  <2>2. primary = {r}
    BY <1>1, <2>1
  <2>3. root = r
    BY <2>2
  <2> HIDE DEF root, primary
  <2>4. QED
    BY <2>1, <2>2, <2>3
<1>3. Chains(src, 4) = {} /\ \A n \in D : parents(n) \subseteq D
  BY <1>1 DEF Routed
<1>4. \A n, c : c \in Children(specs, n) <=> c \in D /\ n \in parents(c)
  BY <1>1 DEF Children
<1>5. \A len : Chains(src, len) =
        {c \in [1..len -> D] : \A i \in 1..(len - 1) : c[i] \in parents(c[i + 1])}
  BY <1>1 DEF Chains
<1>6. Cardinality(primary) = 1 /\ specs[root].parents = <<>> /\ root \in D
  <2>1. Cardinality(primary) = 1
    BY <1>2, FS_Singleton
  <2>2. root \in D
    BY <1>2
  <2>3. QED
    BY <1>1, <1>2, <2>1, <2>2
<1> HIDE DEF specs, D, root, parents
<1>7. ASSUME NEW a \in D, NEW b \in D, NEW c \in D, NEW d \in D,
             a \in parents(b), b \in parents(c), c \in parents(d)
      PROVE  FALSE
  <2> DEFINE ch == [i \in 1..4 |-> IF i = 1 THEN a ELSE IF i = 2 THEN b ELSE IF i = 3 THEN c ELSE d]
  <2>1. ch \in [1..4 -> D]
    BY <1>7
  <2>2. \A i \in 1..3 : ch[i] \in parents(ch[i + 1])
    BY <1>7
  <2> HIDE DEF ch
  <2>3. ch \in Chains(src, 4)
    <3>1. 4 - 1 = 3
      OBVIOUS
    <3>2. Chains(src, 4) =
            {e \in [1..4 -> D] : \A i \in 1..3 : e[i] \in parents(e[i + 1])}
      BY <1>5, <3>1
    <3>3. QED
      BY <2>1, <2>2, <3>2
  <2>4. QED
    BY <1>3, <2>3
<1>8. ParentsKnown(specs)
  <2>1. ASSUME NEW n \in D PROVE n \notin parents(n)
    BY <1>7, <2>1
  <2>2. \A n \in D : Range(specs[n].parents) = parents(n)
    BY <1>1 DEF parents
  <2>3. QED
    BY <1>3, <2>1, <2>2 DEF ParentsKnown, D
<1>9. Acyclic(specs)
  <2>1. \A a, b, c, d \in D :
          ~(b \in Children(specs, a) /\ c \in Children(specs, b) /\ d \in Children(specs, c))
    BY <1>4, <1>7
  <2>2. QED
    BY <1>1, <2>1, NoCycle DEF D
<1>10. \A set, c : c \in Below(specs, set) <=> c \in D /\ \E n \in set : n \in parents(c)
  BY <1>4 DEF Below
<1>11. /\ \A c : c \in L1 <=> c \in D /\ root \in parents(c)
       /\ \A c : c \in L2 <=> c \in D /\ \E n \in L1 : n \in parents(c)
  <2>1. L1 = Below(specs, {root}) /\ L2 = Below(specs, L1)
    OBVIOUS
  <2> HIDE DEF L1, L2
  <2>2. \A c : c \in L1 <=> c \in D /\ root \in parents(c)
    BY <1>10, <2>1
  <2>3. \A c : c \in L2 <=> c \in D /\ \E n \in L1 : n \in parents(c)
    BY <1>10, <2>1, Zenon
  <2>4. QED
    BY <2>2, <2>3
<1>12. Below(specs, L2) = {}
  <2>1. SUFFICES ASSUME NEW d \in Below(specs, L2) PROVE FALSE
    OBVIOUS
  <2>2. PICK c \in L2 : d \in D /\ c \in parents(d)
    BY <1>10
  <2>3. PICK b \in L1 : c \in D /\ b \in parents(c)
    BY <1>11, <2>2
  <2>4. b \in D /\ root \in parents(b)
    BY <1>11, <2>3
  <2>5. QED
    BY <1>6, <1>7, <2>2, <2>3, <2>4
<1>13. ASSUME NEW n \in D PROVE n \in {root} \cup L1 \cup L2
  <2>1. PICK len \in 1..3 : \E c \in Chains(src, len) : c[1] = root /\ c[len] = n
    BY <1>2, <1>13
  <2>2. PICK c \in Chains(src, len) : c[1] = root /\ c[len] = n
    BY <2>1
  <2>3. c \in [1..len -> D] /\ \A i \in 1..(len - 1) : c[i] \in parents(c[i + 1])
    BY <1>5, <2>2
  <2> HIDE DEF L1, L2
  <2>4. CASE len = 1
    BY <2>2, <2>4
  <2>5. CASE len = 2
    <3>1. c[1] \in parents(c[2])
      BY <2>3, <2>5
    <3>2. QED
      BY <1>11, <1>13, <2>2, <2>5, <3>1
  <2>6. CASE len = 3
    <3>1. c[1] \in parents(c[2]) /\ c[2] \in parents(c[3]) /\ c[2] \in D
      BY <2>3, <2>6
    <3>2. QED
      BY <1>11, <1>13, <2>2, <2>6, <3>1
  <2>7. QED
    BY <2>1, <2>4, <2>5, <2>6
<1>14. D = UNION {Level(specs, root, d) : d \in 0..2}
  <2>1. UNION {Level(specs, root, d) : d \in 0..2}
          = Level(specs, root, 0) \cup Level(specs, root, 1) \cup Level(specs, root, 2)
    OBVIOUS
  <2>2. UNION {Level(specs, root, d) : d \in 0..2} = {root} \cup L1 \cup L2
    BY <2>1, LevelFacts
  <2>3. L1 \subseteq D /\ L2 \subseteq D
    BY <1>11
  <2> HIDE DEF L1, L2
  <2>4. QED
    BY <1>6, <1>13, <2>2, <2>3
<1>15. Level(specs, root, 3) = {}
  BY <1>12, LevelFacts
<1>16. QED
  <2>1. GraphAccepted(specs) <=>
          /\ Cardinality(primary) = 1 /\ specs[root].parents = <<>>
          /\ ParentsKnown(specs) /\ Acyclic(specs)
          /\ Level(specs, root, 3) = {}
          /\ D = UNION {Level(specs, root, d) : d \in 0..2}
    BY Zenon DEF GraphAccepted, D, root
  <2>2. GraphAccepted(specs)
    BY <1>6, <1>8, <1>9, <1>14, <1>15, <2>1
  <2>3. QED
    BY <2>2 DEF specs

\* A synchronisation ends with 1 only when the loader or agent_entry refused.
Refused ==
  pc = "done" /\ status = 1 /\ run.mode = "write" =>
    run.source \notin Loadable \/ ~Renders("opencode", run.source)

LEMMA RefusedStep == TypeOK /\ Refused /\ [Next]_vars => Refused'
<1> SUFFICES ASSUME TypeOK, Refused, [Next]_vars
             PROVE  Refused'
  OBVIOUS
<1>1. ASSUME NEW names \in Selections, NEW mode \in RunModes, Begin(names, mode)
      PROVE  Refused'
  BY <1>1 DEF Refused, Begin, Finish
<1>2. CASE Plan
  BY <1>2 DEF Refused, Plan, Finish, TypeOK
<1>3. CASE Write
  BY <1>3 DEF Refused, Write, Finish
<1>4. CASE Open \/ Fill
  BY <1>4 DEF Refused, Open, Fill
<1>5. CASE Delete
  BY <1>5 DEF Refused, Delete, Finish
<1>6. CASE Fail \/ Crash
  BY <1>6 DEF Refused, Fail, Crash, Finish
<1>7. ASSUME NEW s \in Editable, EditSource(s)
      PROVE  Refused'
  BY <1>7 DEF Refused, EditSource, runVars
<1>8. ASSUME NEW p \in UserPaths, NEW content \in {User, Link, Absent}, EditFile(p, content)
      PROVE  Refused'
  BY <1>8 DEF Refused, EditFile, runVars
<1>9. CASE UNCHANGED vars
  BY <1>9 DEF Refused, vars, runVars
<1>10. QED
  BY <1>1, <1>2, <1>3, <1>4, <1>5, <1>6, <1>7, <1>8, <1>9 DEF Next

\* The graph of delegation decides whether a run goes on (_validate_graph), in both
\* directions: a run plans only with agents that are routed from the one primary agent by
\* chains of at most two delegations, and a synchronisation of such agents ends with 1 only
\* for a field, a skill or a reserved key.  No order of the agents makes the searches for
\* cycles and for depth accept or refuse anything else.
THEOREM GraphDecides == Spec => []GraphsAreRouted
PROOF
  <1>1. SyncInvariant /\ Refused => GraphsAreRouted
    <2> SUFFICES ASSUME SyncInvariant, Refused
                 PROVE  GraphsAreRouted
      OBVIOUS
    <2>1. run.source \in DOMAIN Sources
      BY DEF SyncInvariant, TypeOK
    <2>2. ASSUME run.source \in Loadable
          PROVE  run.source \in RoutedSources
      <3>1. /\ NamesAccepted(Sources[run.source])
            /\ GraphAccepted(Specs(Sources[run.source]))
        BY <2>2 DEF Loadable, AgentsLoad, FieldsLoad
      <3>2. QED
        BY <2>1, <3>1, AcceptedIsRouted DEF RoutedSources
    <2>3. ASSUME run.source \in RoutedSources, FieldsLoad(Sources[run.source]),
                 SkillsLoad(Sources[run.source])
          PROVE  run.source \in Loadable
      <3>1. NamesAccepted(Sources[run.source]) /\ Routed(Sources[run.source])
        BY <2>3 DEF FieldsLoad, RoutedSources
      <3>2. QED
        BY <2>1, <2>3, <3>1, RoutedIsAccepted DEF Loadable, AgentsLoad
    <2>4. pc = "plan" => run.source \in Loadable
      BY DEF SyncInvariant, Stages
    <2>5. QED
      BY <2>2, <2>3, <2>4 DEF GraphsAreRouted, Refused
  <1>2. Init => Refused
    BY DEF Init, Refused
  <1>3. SyncInvariant => TypeOK
    BY DEF SyncInvariant
  <1> QED
    BY SyncInductive, RefusedStep, <1>1, <1>2, <1>3, PTL DEF Spec
=============================================================================
