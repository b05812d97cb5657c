-------------------------- MODULE ArchiveValidation --------------------------
(***************************************************************************)
(* What ValidateArchive does with one uploaded archive: it unpacks a       *)
(* .tar.gz or .zip below a fresh temporary directory, looks for problems   *)
(* at the top or one directory down, checks their files and runs each      *)
(* reference solution against the problem's own tests.  A refusal removes  *)
(* the temporary directory; an accepted archive leaves it to the caller    *)
(* (ProblemCatalog), which renames it into the store, where                *)
(* loadProblemFromDir reads it again with checks of its own.               *)
(*                                                                         *)
(* A path is the sequence of its components.  A file is its size, a        *)
(* content that matters for manifests only ("ok", "odd": it parses but     *)
(* validateManifest refuses it, "broken") and whether all of it was        *)
(* written.  Texts are sequences of characters, chosen when the reference  *)
(* solution prints them or the .out file is compared.                      *)
(***************************************************************************)
EXTENDS Integers, Sequences, FiniteSets, FiniteSetsExt, SequencesExt

CONSTANTS
    Names,              \* components of the names in archives
    Archives,           \* kinds of archives: a format, and the entries an
                        \* archive of the kind may hold
    Characters,         \* of texts; "nl" ends a line, "sp" is a blank
    Texts,              \* outputs of a reference solution
    ExpectedTexts,      \* contents of .out files
    MaxExtractedBytes,
    MaxTestCases,
    MaxFailures         \* bound: failing reads, file operations, executions

Entry(e) ==
    /\ e.name \in Seq(Names)
    /\ e.kind \in {"dir", "file", "link"}
    /\ e.size \in Nat
    /\ e.content \in {"ok", "odd", "broken"}

ASSUME ArchiveAssumption ==
    /\ \A a \in Archives : a.format \in {"tar", "zip"}
                             /\ \A e \in a.entries : Entry(e)
    /\ ExpectedTexts \subseteq Texts /\ Texts \subseteq Seq(Characters)
    /\ "nl" \in Characters
    /\ MaxExtractedBytes \in Nat
    /\ MaxTestCases \in Nat \ {0}
    /\ MaxFailures \in Nat

VARIABLES
    stage,      \* where ValidateArchive is
    archive,    \* the kind of the archive: the extractor goes by its format
    fs,         \* the file system: path -> node
    total,      \* totalBytes
    todo,       \* directories with a manifest still to be validated
    current,    \* the one being validated
    tests,      \* test cases the reference solution still has to pass
    results,    \* directories validated
    judged,     \* the last comparison: stdout, expected, verdict of Match
    failures

archiveVars ==
    <<stage, archive, fs, total, todo, current, tests, results, judged, failures>>

Root == <<"tmp", "bb-upload">>
Component == Names \cup {"", "tmp", "bb-upload"}
Node == [kind : {"dir", "file"}, size : Nat,
         content : {"ok", "odd", "broken"}, whole : BOOLEAN]
Dir == [kind |-> "dir", size |-> 0, content |-> "ok", whole |-> TRUE]
NotJudged == [stdout |-> <<>>, expected |-> <<>>, match |-> TRUE]

Busy == {"extracting", "scanning", "validating", "judging"}

ArchiveTypeOK ==
    /\ stage \in {"idle", "accepted", "refused"} \cup Busy
    /\ archive \in Archives
    /\ DOMAIN fs \subseteq Seq(Component) \ {<<>>}
    /\ \A p \in DOMAIN fs : fs[p] \in Node
    /\ total \in 0..(MaxExtractedBytes + 1)
    /\ todo \cup tests \cup results \subseteq DOMAIN fs
    /\ failures \in 0..MaxFailures

ArchiveInit ==
    /\ stage = "idle"
    /\ archive \in Archives
    /\ fs = [p \in {<<"tmp">>} |-> Dir]
    /\ total = 0
    /\ todo = {}
    /\ current = <<>>
    /\ tests = {}
    /\ results = {}
    /\ judged = NotJudged
    /\ failures = 0

------------------------------------------------------------------------------
(* The file system *)

Exists(p) == p \in DOMAIN fs
IsDir(p) == Exists(p) /\ fs[p].kind = "dir"
IsFile(p) == Exists(p) /\ fs[p].kind = "file"
Children(p) == {q \in DOMAIN fs : Front(q) = p}

\* os.MkdirAll makes every missing directory on the way to p.
Way(p) == {SubSeq(p, 1, n) : n \in 1..Len(p)}
CanMkdirAll(p) == \A q \in Way(p) : ~IsFile(q)
MkdirAll(p) ==
    [q \in DOMAIN fs \cup Way(p) |-> IF Exists(q) THEN fs[q] ELSE Dir]

\* The tree f with a file at p, which may replace one.
WithFile(f, p, file) ==
    [q \in DOMAIN f \cup {p} |-> IF q = p THEN file ELSE f[q]]

\* os.RemoveAll
RemoveAll(p) == [q \in {q \in DOMAIN fs : ~IsPrefix(p, q)} |-> fs[q]]

\* An error: the temporary directory goes, whatever was unpacked.
Refuse ==
    /\ stage' = "refused"
    /\ fs' = RemoveAll(Root)
    /\ todo' = {} /\ current' = <<>> /\ tests' = {} /\ results' = {}
    /\ total' = 0

------------------------------------------------------------------------------
(* Extraction *)

\* A name that starts with a slash.
Rooted(name) == name # <<>> /\ Head(name) = ""

\* filepath.Clean, component by component: "." and empty components vanish,
\* ".." takes away the component before it, if there is one; at the front it
\* stays, but vanishes from a name that starts with a slash.
CleanStep(path, c, rooted) ==
    IF c \in {"", "."} THEN path
    ELSE IF c # ".." THEN Append(path, c)
    ELSE IF path # <<>> /\ Last(path) # ".." THEN Front(path)
    ELSE IF rooted THEN path ELSE Append(path, c)

Clean(name) ==
    LET cleaned[n \in 0..Len(name)] ==
            IF n = 0 THEN <<>>
            ELSE CleanStep(cleaned[n - 1], name[n], Rooted(name))
    IN  cleaned[Len(name)]

\* filepath.Join of an absolute directory and a name
Join(dir, name) == Clean(<<"">> \o dir \o name)

\* strings.HasPrefix(cleanName, "..") also hits a first component like this,
\* but not behind the slash that Clean keeps at the front of a rooted name.
DotDot == {"..", "..data"}

Refused == <<>>

\* Where an entry is unpacked to, unless its name is refused.
safeTarget(name) ==
    LET clean == Clean(name)
        target == Join(Root, clean)
    IN  IF \/ ~Rooted(name) /\ clean # <<>> /\ Head(clean) \in DotDot
           \/ ~IsPrefix(Root, target)
        THEN Refused ELSE target

\* Mutant: a reader limited to what remains cannot tell a file that just
\* fits from one that does not.
CopiedRemaining(e) == Min({e.size, MaxExtractedBytes - total})

\* Mutant: one entry may write as much as it holds.
CopiedAll(e) == e.size

\* io.Copy from io.LimitReader(tr, remaining+1)
Copied(e) == Min({e.size, MaxExtractedBytes - total + 1})

\* An executor that is not ready, an archive over MaxArchiveBytes, a failing
\* MkdirTemp, or an archive that is neither gzip nor zip.
RefuseUnread ==
    /\ stage = "idle"
    /\ Refuse
    /\ UNCHANGED <<archive, judged, failures>>

Open ==
    /\ stage = "idle"
    /\ stage' = "extracting"
    /\ fs' = MkdirAll(Root)
    /\ UNCHANGED <<archive, total, todo, current, tests, results, judged,
                   failures>>

\* A link in a zip file is skipped unread; in a tar file its name is checked
\* and then nothing is made of it.
Skip(e) ==
    /\ e.kind = "link"
    /\ archive.format = "zip" \/ safeTarget(e.name) # Refused
    /\ UNCHANGED archiveVars

ExtractDir(e) ==
    LET p == safeTarget(e.name) IN
    /\ e.kind = "dir"
    /\ p # Refused /\ CanMkdirAll(p)
    /\ fs' = MkdirAll(p)
    /\ UNCHANGED <<stage, total, todo, current, tests, results>>

\* O_TRUNC: the last of two entries with one name is the one that counts.
\* The bytes are written before they are added up.
ExtractFile(e) ==
    LET p == safeTarget(e.name)
        file == [kind |-> "file", size |-> Copied(e), content |-> e.content,
                 whole |-> Copied(e) = e.size]
    IN
    /\ e.kind = "file"
    /\ p # Refused /\ CanMkdirAll(Front(p)) /\ ~IsDir(p)
    /\ fs' = WithFile(MkdirAll(Front(p)), p, file)
    /\ total' = total + Copied(e)
    /\ UNCHANGED <<stage, todo, current, tests, results>>

\* A refused name, or a file where a directory has to be and the other way
\* round.
RefuseEntry(e) ==
    LET p == safeTarget(e.name) IN
    /\ ~(e.kind = "link" /\ archive.format = "zip")
    /\ \/ p = Refused
       \/ e.kind = "dir" /\ ~CanMkdirAll(p)
       \/ e.kind = "file" /\ (~CanMkdirAll(Front(p)) \/ IsDir(p))
    /\ Refuse

ExtractEntry(e) ==
    /\ stage = "extracting"
    /\ total <= MaxExtractedBytes
    /\ ExtractDir(e) \/ ExtractFile(e) \/ RefuseEntry(e)
    /\ UNCHANGED <<archive, judged, failures>>

SkipEntry(e) ==
    /\ stage = "extracting"
    /\ total <= MaxExtractedBytes
    /\ Skip(e)

TooLarge ==
    /\ stage = "extracting"
    /\ total > MaxExtractedBytes
    /\ Refuse
    /\ UNCHANGED <<archive, judged, failures>>

EndOfArchive ==
    /\ stage = "extracting"
    /\ total <= MaxExtractedBytes
    /\ stage' = "scanning"
    /\ UNCHANGED <<archive, fs, total, todo, current, tests, results,
                   judged, failures>>

------------------------------------------------------------------------------
(* Validation *)

Manifest(d) == Append(d, "manifest.json")
Statement(d) == Append(d, "statement.md")

\* A manifest at the top, whatever it is, makes the archive one problem;
\* otherwise every directory at the top that has one is a problem.
ProblemDirs ==
    IF Exists(Manifest(Root)) THEN {Root}
    ELSE {d \in Children(Root) : IsDir(d) /\ Exists(Manifest(d))}

Scan ==
    /\ stage = "scanning"
    /\ \/ /\ ProblemDirs # {}
          /\ stage' = "validating"
          /\ todo' = ProblemDirs
          /\ UNCHANGED <<fs, total, current, tests, results>>
       \/ /\ ProblemDirs = {}
          /\ Refuse

FindProblems == Scan /\ UNCHANGED <<archive, judged, failures>>

\* json.Unmarshal, then validateManifest
validateManifest(d) == IsFile(Manifest(d)) /\ fs[Manifest(d)].content = "ok"

\* Exactly one file with a known extension; a directory or any other file
\* in reference/ does not count.
extToLang == {"sol.py", "sol.go"}
loadReference(d) ==
    LET refDir == Append(d, "reference")
    IN  /\ IsDir(refDir)
        /\ Cardinality({f \in Children(refDir) :
                            IsFile(f) /\ Last(f) \in extToLang}) = 1

\* The test cases are the .in files; each one needs its .out file.
OutOf == [f \in {"1.in", "2.in"} |-> IF f = "1.in" THEN "1.out" ELSE "2.out"]
TestDir(d) == Append(d, "tests")
TestInputs(d) ==
    {f \in Children(TestDir(d)) : IsFile(f) /\ Last(f) \in DOMAIN OutOf}
loadTestCases(d) ==
    /\ ~IsFile(TestDir(d))
    /\ \A f \in TestInputs(d) : IsFile(Append(TestDir(d), OutOf[Last(f)]))

loadAndValidateTestCases(d) ==
    /\ Exists(TestDir(d)) /\ loadTestCases(d)
    /\ Cardinality(TestInputs(d)) \in 1..MaxTestCases

WellFormed(d) ==
    /\ validateManifest(d)
    /\ IsFile(Statement(d))
    /\ loadReference(d)
    /\ loadAndValidateTestCases(d)

\* validateProblemDir up to the run of the reference solution.
Validate(d) ==
    /\ stage = "validating"
    /\ d \in todo
    /\ \/ /\ WellFormed(d)
          /\ stage' = "judging"
          /\ current' = d
          /\ tests' = TestInputs(d)
          /\ UNCHANGED <<fs, total, todo, results>>
       \/ /\ ~WellFormed(d)
          /\ Refuse
    /\ UNCHANGED <<archive, judged, failures>>

TrimRight(s, cutset) ==
    SubSeq(s, 1, Max({0} \cup {i \in DOMAIN s : s[i] \notin cutset}))

\* strings.Split(s, "\n") and strings.Join(lines, "\n")
SplitStep(lines, c) ==
    IF c = "nl" THEN Append(lines, <<>>)
    ELSE [lines EXCEPT ![Len(lines)] = Append(@, c)]
Split(s) ==
    LET split[n \in 0..Len(s)] ==
            IF n = 0 THEN << <<>> >> ELSE SplitStep(split[n - 1], s[n])
    IN  split[Len(s)]
JoinLines(lines) ==
    LET joined[n \in 0..(Len(lines) - 1)] ==
            IF n = 0 THEN lines[1] ELSE joined[n - 1] \o <<"nl">> \o lines[n + 1]
    IN  joined[Len(lines) - 1]
TrimLines(s) ==
    LET lines == Split(s)
    IN  JoinLines([i \in DOMAIN lines |-> TrimRight(lines[i], {"sp"})])

\* Mutant: the empty lines at the end go before the blanks that hide them.
NormalizeNewlinesFirst(s) == TrimLines(TrimRight(s, {"nl"}))

NormalizeOutput(s) == TrimRight(TrimLines(s), {"nl"})

Match(actual, expected) == NormalizeOutput(actual) = NormalizeOutput(expected)

\* runReferenceTests: the next test case.  Whatever the executor reports
\* besides an error, only the output is looked at.
RunTest(t) ==
    /\ stage = "judging"
    /\ t \in tests
    /\ \E stdout \in Texts, expected \in ExpectedTexts :
          LET match == Match(stdout, expected) IN
          /\ judged' = [stdout |-> stdout, expected |-> expected, match |-> match]
          /\ \/ /\ match
                /\ tests' = tests \ {t}
                /\ UNCHANGED <<stage, fs, total, todo, current, results>>
             \/ /\ ~match
                /\ Refuse
    /\ UNCHANGED <<archive, failures>>

\* The problem passed; the archive is accepted when all of them did.
ProblemPassed ==
    /\ stage = "judging"
    /\ tests = {}
    /\ results' = results \cup {current}
    /\ todo' = todo \ {current}
    /\ current' = <<>>
    /\ stage' = IF todo' = {} THEN "accepted" ELSE "validating"
    /\ UNCHANGED <<archive, fs, total, tests, judged, failures>>

\* A damaged archive, a failing file operation, an executor error or a
\* request that went away.
Fail ==
    /\ stage \in Busy
    /\ failures < MaxFailures
    /\ failures' = failures + 1
    /\ Refuse
    /\ UNCHANGED <<archive, judged>>

ArchiveNext ==
    \/ RefuseUnread \/ Open \/ TooLarge \/ EndOfArchive \/ FindProblems
    \/ ProblemPassed \/ Fail
    \/ \E e \in archive.entries : ExtractEntry(e) \/ SkipEntry(e)
    \/ \E d \in todo : Validate(d)
    \/ \E t \in tests : RunTest(t)

ArchiveSpec == ArchiveInit /\ [][ArchiveNext]_archiveVars

------------------------------------------------------------------------------
(* The store's own reading of a problem's directory *)

\* loadProblemFromDir asks for less than the validator, in other words.
loadProblemFromDir(d) ==
    /\ IsFile(Manifest(d)) /\ fs[Manifest(d)].content # "broken"
    /\ IsFile(Statement(d))
    /\ loadTestCases(d)
    /\ TestInputs(d) # {}

------------------------------------------------------------------------------
(* Properties *)

\* Nothing is ever unpacked outside the temporary directory, however the
\* names of the entries are spelled (safeTarget).
InsideRoot ==
    \A p \in DOMAIN fs \ {<<"tmp">>} : IsPrefix(Root, p)

\* The bytes on the disk.
Bytes == UNION {{p} \X (1..fs[p].size) : p \in DOMAIN fs}

\* The files of one upload take at most one byte more than
\* MaxExtractedBytes, also while the entry that goes over the limit is
\* being written and when names repeat.
DiskBounded == Cardinality(Bytes) <= MaxExtractedBytes + 1

\* An accepted archive is on the disk in full: a file that the byte limit
\* cut short never passes as a shorter file.
AcceptedWhole ==
    stage = "accepted" =>
        \A p \in DOMAIN fs : fs[p].whole

\* Whatever the validator accepts, the store can load: its checks, made on
\* the same files later, never refuse a problem that was accepted.
AcceptedLoads ==
    stage = "accepted" =>
        results # {} /\ \A d \in results : loadProblemFromDir(d)

\* No refusal, at whatever point it comes, leaves the temporary directory.
RefusedCleansUp ==
    stage = "refused" => ~Exists(Root)

\* Unpacking is contained: inside its directory, within its byte limit, and
\* gone when the archive is refused.
Contained == InsideRoot /\ DiskBounded /\ RefusedCleansUp

\* What is accepted is there in full and can be loaded.
AcceptedUsable == AcceptedWhole /\ AcceptedLoads

\* The i-th line of a text, and equality of lines up to blanks at the end.
LineOf(s, i) ==
    LET Before(p) == Cardinality({q \in 1..(p - 1) : s[q] = "nl"})
        inLine == {p \in DOMAIN s : s[p] # "nl" /\ Before(p) = i - 1}
    IN  [k \in 1..Cardinality(inLine) |-> s[Min(inLine) + k - 1]]
SameLine(x, y) ==
    \E n \in 0..Min({Len(x), Len(y)}) :
        /\ SubSeq(x, 1, n) = SubSeq(y, 1, n)
        /\ \A k \in (n + 1)..Len(x) : x[k] = "sp"
        /\ \A k \in (n + 1)..Len(y) : y[k] = "sp"

\* Match answers yes exactly when the outputs agree line by line, a line
\* beyond the end of a text counting as empty, up to blanks at the ends of
\* lines.
MatchIsLinewise ==
    judged.match <=>
        \A i \in 1..(1 + Max({Len(judged.stdout), Len(judged.expected)})) :
            SameLine(LineOf(judged.stdout, i), LineOf(judged.expected, i))

=============================================================================
