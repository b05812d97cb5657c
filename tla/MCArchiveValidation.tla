------------------------ MODULE MCArchiveValidation ------------------------
(* Three kinds of archives: one problem at the top with every defect of its *)
(* parts, problems in directories, and names that need cleaning.            *)
EXTENDS ArchiveValidation

File(name, size, content) ==
    [name |-> name, kind |-> "file", size |-> size, content |-> content]
Folder(name) == [name |-> name, kind |-> "dir", size |-> 0, content |-> "ok"]
Link(name) == [name |-> name, kind |-> "link", size |-> 0, content |-> "ok"]

\* The files a problem in directory d cannot do without.
Needed(d) ==
    {File(d \o <<"manifest.json">>, 1, "ok"),
     File(d \o <<"statement.md">>, 0, "ok"),
     File(d \o <<"reference", "sol.py">>, 0, "ok"),
     File(d \o <<"tests", "1.in">>, 0, "ok"),
     File(d \o <<"tests", "1.out">>, 0, "ok")}

TopMenu ==
    Needed(<<>>) \cup
    {File(<<"manifest.json">>, 1, "odd"),
     Folder(<<"manifest.json">>), File(<<"statement.md">>, 3, "ok"),
     File(<<"reference", "sol.go">>, 0, "ok"), File(<<"reference">>, 0, "ok"),
     File(<<"tests", "2.in">>, 0, "ok"), File(<<"tests", "2.out">>, 0, "ok"),
     Folder(<<"tests">>)}

FolderMenu ==
    Needed(<<"p">>) \cup Needed(<<"q">>) \cup
    {File(<<"readme">>, 3, "ok"), File(<<"q", "manifest.json">>, 1, "broken"),
     File(<<"manifest.json">>, 1, "ok")}

NameMenu ==
    Needed(<<"p">>) \cup
    {File(<<"p", "..", "..", "x">>, 1, "ok"), File(<<"", "..", "x">>, 1, "ok"),
     File(<<"..", "x">>, 1, "ok"), File(<<"..data">>, 1, "ok"),
     File(<<"", "..data">>, 1, "ok"),
     File(<<"x", "..", "y">>, 1, "ok"), Folder(<<".">>), File(<<".">>, 1, "ok"),
     Link(<<"p", "link">>), Link(<<"..", "link">>)}

MCNames ==
    {"", ".", "..", "..data", "manifest.json", "statement.md", "reference",
     "sol.py", "sol.go", "tests", "1.in", "1.out", "2.in", "2.out", "readme",
     "p", "q", "x", "y", "link"}
MCArchives ==
    {[format |-> "tar", entries |-> TopMenu],
     [format |-> "zip", entries |-> FolderMenu],
     [format |-> "tar", entries |-> NameMenu],
     [format |-> "zip", entries |-> NameMenu]}
MCCharacters == {"a", "sp", "nl"}
MCTexts == UNION {[1..n -> MCCharacters] : n \in 0..3}
MCExpectedTexts == {<<>>, <<"a">>, <<"sp", "a", "nl">>}
=============================================================================
