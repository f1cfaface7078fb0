----------------------------- MODULE FileBrowser ----------------------------
(***************************************************************************)
(* The file browser of the web version: script.js on the page files.html,  *)
(* and the tree scan.php gives it.                                         *)
(*                                                                         *)
(* The page is driven by the hash of its address.  A handler that wants to *)
(* show something assigns location.hash; the browser then adds an entry to *)
(* its history and queues a hashchange event, and only the handler of that *)
(* event, goto, renders.  Back, Forward and the user's own addresses queue *)
(* the same event.  Meanwhile the handlers keep variables of their own,    *)
(* currentPath, breadcrumbsUrls, the class searching and the results       *)
(* found, which the next goto builds on.                                   *)
(*                                                                         *)
(* A node of the tree is its path, the sequence of names that leads to it. *)
(* A search term is known by the names it matches.                         *)
(*                                                                         *)
(* An operator named Bug... is a faulty form of the operator behind it; no *)
(* specification uses it.                                                  *)
(***************************************************************************)
EXTENDS Naturals, Sequences, SequencesExt

CONSTANTS
    Folders,      \* paths of the folders scan.php found
    Files,        \* paths of the files it found
    Root,         \* data.path, the folder scanned
    Names,        \* names of folders and files, and those in the user's addresses
    Terms,        \* search terms the user types
    Matching,     \* valid search terms, with the names each matches
    BadPatterns,  \* terms that are no regular expression
    BadEscapes,   \* terms that decodeURIComponent refuses
    Bookmarks,    \* addresses the user may open the page with
    Entered,      \* addresses the user may enter while the page is open
    MaxHistory,   \* BOUND: entries of the history
    MaxEvents,    \* BOUND: hashchange events that wait
    MaxCrumbs     \* BOUND: length of breadcrumbsUrls

Nodes == Folders \cup Files

\* A path is a sequence of names, also of the one that encodeURIComponent gives
\* undefined; every node but the root is in a folder, and the root is a single name.
ASSUME TreeAssumption ==
    /\ Nodes \subseteq Seq(Names)
    /\ "undefined" \in Names
    /\ Folders \cap Files = {}
    /\ Root \in Folders
    /\ Len(Root) = 1
    /\ \A n \in Nodes : n = Root \/ (Len(n) > 1 /\ Front(n) \in Folders)

\* Whatever address the page is opened with, a path in it has names.
ASSUME AddressAssumption ==
    \A h \in Bookmarks \cup Entered : h.kind = "path" => h.path \in Seq(Names) \ {<<>>}

ASSUME BoundAssumption ==
    /\ MaxHistory \in Nat \ {0}
    /\ MaxEvents \in Nat
    /\ MaxCrumbs \in Nat

VARIABLES
    history, at,      \* the browser's history and its present entry
    events,           \* hashchange events queued
    stage,            \* loading, crippled (goto failed at first), ready
    box,              \* the search box: hidden, empty, filled
    searching,        \* the class searching of the page
    currentPath,
    breadcrumbsUrls,
    found,            \* the arrays folders and files: how often each node is in
    shown,            \* the list on the screen: how often each node is in
    crumbs            \* the folders on the screen's breadcrumbs, <<>> in a search

browser == <<history, at, events>>
screen  == <<shown, crumbs>>
vars    == <<browser, stage, box, searching, currentPath, breadcrumbsUrls, found, screen>>

-----------------------------------------------------------------------------
(* Addresses *)

NoHash      == [kind |-> "none"]
PathHash(p) == IF p = <<>> THEN NoHash ELSE [kind |-> "path", path |-> p]
TermHash(t) == [kind |-> "search", term |-> t]

address == history[at]

\* encodeURIComponent of a value that is undefined.
Undefined == <<"undefined">>

\* An element of breadcrumbsUrls that was never set.
Hole == <<>>

\* Assigning location.hash: nothing when it is the present hash; else a new
\* entry behind the present one, and an event.
SetHash(h) ==
    IF h = address
      THEN UNCHANGED browser
      ELSE /\ at < MaxHistory
           /\ events < MaxEvents
           /\ history' = Append(SubSeq(history, 1, at), h)
           /\ at' = at + 1
           /\ events' = events + 1

-----------------------------------------------------------------------------
(* The tree *)

Items(f) == {n \in Nodes \ {Root} : Front(n) = f}

GenerateBreadcrumbs(dir) == [i \in 1..Len(dir) |-> SubSeq(dir, 1, i)]

\* The paths that occur: of a node, of a click on nothing, and whatever the user
\* enters, with the folders it goes through.
Paths == LET given == {h \in Bookmarks \cup Entered : h.kind = "path"}
         IN  Nodes \cup {Undefined}
               \cup UNION {Range(GenerateBreadcrumbs(h.path)) : h \in given}

\* The items of a file, and what is made of them.
NotAList == {<<>>}

\* One round of the loop of searchByPath: a name that is not there is skipped.
Descend(demo, name) ==
    LET hit == IF demo = NotAList THEN {} ELSE {n \in demo : Last(n) = name}
    IN  IF hit = {} THEN demo
        ELSE LET n == CHOOSE n \in hit : TRUE
             IN  IF n \in Folders THEN Items(n) ELSE NotAList

\* The loop over the names of dir, begun at the nodes of top.
Walk(top, dir) ==
    LET demo[i \in 0..Len(dir)] == IF i = 0 THEN top ELSE Descend(demo[i - 1], dir[i])
    IN  demo[Len(dir)]

\* When no name matched, demo is still the response and flag is 0.
SearchByPath == [dir \in Paths |->
    LET demo == Walk({Root}, dir) IN IF demo = {Root} THEN {} ELSE demo]

\* Faulty: a term is not looked for inside folders.
BugSearchData(term) ==
    [n \in Nodes |-> IF Last(n) \in Matching[term] /\ Len(n) <= 2 /\ found[n] < 2
                     THEN found[n] + 1 ELSE found[n]]

\* All matches, folder or file, are pushed; 2 stands for any larger number.
SearchData(term) ==
    [n \in Nodes |-> IF Last(n) \in Matching[term] /\ found[n] < 2
                     THEN found[n] + 1 ELSE found[n]]

Once(S) == [n \in Nodes |-> IF n \in S THEN 1 ELSE 0]

-----------------------------------------------------------------------------
(* goto, as it reads the address when its event is handled *)

\* One round of forEach over breadcrumbsUrls: it skips the holes.
Link(links, url) == IF url = Hole THEN links ELSE Append(links, url)

\* The links made of breadcrumbsUrls.
Drawn(urls) ==
    LET links[i \in 0..Len(urls)] == IF i = 0 THEN <<>> ELSE Link(links[i - 1], urls[i])
    IN  links[Len(urls)]

\* Faulty: the breadcrumbs are drawn before breadcrumbsUrls is set.
BugRender(list) ==
    /\ shown' = list
    /\ crumbs' = IF searching' THEN <<>> ELSE Drawn(breadcrumbsUrls)

\* The old list is replaced.  In a search there are no breadcrumbs.
Render(list) ==
    /\ shown' = list
    /\ crumbs' = IF searching' THEN <<>> ELSE Drawn(breadcrumbsUrls')

GotoSearch ==
    /\ address.kind = "search"
    /\ address.term \in DOMAIN Matching
    /\ searching' = TRUE
    /\ found' = SearchData(address.term)
    /\ UNCHANGED <<currentPath, breadcrumbsUrls>>
    /\ Render(found')

\* Faulty: breadcrumbsUrls is left to the click that led here.
BugGotoPath ==
    /\ address.kind = "path"
    /\ SearchByPath[address.path] # NotAList
    /\ currentPath' = address.path
    /\ UNCHANGED <<searching, breadcrumbsUrls, found>>
    /\ Render(Once(SearchByPath[address.path]))

GotoPath ==
    /\ address.kind = "path"
    /\ SearchByPath[address.path] # NotAList
    /\ currentPath' = address.path
    /\ breadcrumbsUrls' = GenerateBreadcrumbs(address.path)
    /\ UNCHANGED <<searching, found>>
    /\ Render(Once(SearchByPath[address.path]))

GotoRoot ==
    /\ address = NoHash
    /\ Len(breadcrumbsUrls) < MaxCrumbs
    /\ currentPath' = Root
    /\ breadcrumbsUrls' = Append(breadcrumbsUrls, Root)
    /\ UNCHANGED <<searching, found>>
    /\ Render(Once(SearchByPath[Root]))

\* A TypeError, a SyntaxError or a URIError leaves goto before anything is shown.
Throws(h) == \/ h.kind = "path" /\ SearchByPath[h.path] = NotAList
             \/ h.kind = "search" /\ h.term \in BadPatterns \cup BadEscapes

GotoThrows ==
    /\ Throws(address)
    /\ searching' = (searching \/ address \in {TermHash(t) : t \in BadPatterns})
    /\ UNCHANGED <<currentPath, breadcrumbsUrls, found, screen>>

Goto == GotoSearch \/ GotoPath \/ GotoRoot \/ GotoThrows

-----------------------------------------------------------------------------
Init ==
    /\ history \in {<<h>> : h \in Bookmarks}
    /\ at = 1
    /\ events = 0
    /\ stage = "loading"
    /\ box = "hidden"
    /\ searching = FALSE
    /\ currentPath = <<>>
    /\ breadcrumbsUrls = <<>>
    /\ found = Once({})
    /\ shown = Once({})
    /\ crumbs = <<>>

\* The answer of scan.php: the handler of hashchange is registered and triggered
\* at once.  When that first goto throws, the handlers of the search box, the
\* folders and the breadcrumbs are never registered.
ScanReturns ==
    /\ stage = "loading"
    /\ Goto
    /\ stage' = IF Throws(address) THEN "crippled" ELSE "ready"
    /\ UNCHANGED <<browser, box>>

\* Faulty: the event is dropped during a search.
BugHashChange ==
    /\ stage # "loading"
    /\ events > 0
    /\ events' = events - 1
    /\ IF searching /\ address.kind = "path"
         THEN UNCHANGED <<searching, currentPath, breadcrumbsUrls, found, screen>>
         ELSE Goto
    /\ UNCHANGED <<history, at, stage, box>>

HashChange ==
    /\ stage # "loading"
    /\ events > 0
    /\ events' = events - 1
    /\ Goto
    /\ UNCHANGED <<history, at, stage, box>>

\* Back and Forward.
Navigate ==
    /\ stage # "loading"
    /\ events < MaxEvents
    /\ at' \in {at - 1, at + 1} \cap DOMAIN history
    /\ events' = events + 1
    /\ UNCHANGED <<history, stage, box, searching, currentPath, breadcrumbsUrls, found, screen>>

\* The user enters another address.
EnterAddress(h) ==
    /\ stage # "loading"
    /\ h # address
    /\ SetHash(h)
    /\ UNCHANGED <<stage, box, searching, currentPath, breadcrumbsUrls, found, screen>>

\* A click on the search field.
OpenSearch ==
    /\ stage = "ready"
    /\ box = "hidden"
    /\ box' = "empty"
    /\ UNCHANGED <<browser, stage, searching, currentPath, breadcrumbsUrls, found, screen>>

\* The input event with some text in the box.
InputTerm(t) ==
    /\ stage = "ready"
    /\ box # "hidden"
    /\ box' = "filled"
    /\ found' = Once({})
    /\ searching' = TRUE
    /\ SetHash(TermHash(t))
    /\ UNCHANGED <<stage, currentPath, breadcrumbsUrls, screen>>

\* The input event with nothing but blanks in the box.
InputNothing ==
    /\ stage = "ready"
    /\ box # "hidden"
    /\ box' = "empty"
    /\ found' = Once({})
    /\ searching' = FALSE
    /\ SetHash(PathHash(currentPath))
    /\ UNCHANGED <<stage, currentPath, breadcrumbsUrls, screen>>

\* The box loses the focus, or ESC is pressed in it: nothing while it has text.
FocusOut ==
    /\ stage = "ready"
    /\ box = "empty"
    /\ box' = "hidden"
    /\ SetHash(PathHash(currentPath))
    /\ UNCHANGED <<stage, searching, currentPath, breadcrumbsUrls, found, screen>>

\* Faulty: the name is pushed, not the path.
BugClickFolder(f) ==
    /\ stage = "ready"
    /\ shown[f] > 0
    /\ IF searching
         THEN breadcrumbsUrls' = GenerateBreadcrumbs(f) /\ box' = "hidden"
         ELSE /\ Len(breadcrumbsUrls) < MaxCrumbs
              /\ breadcrumbsUrls' = Append(breadcrumbsUrls, <<Last(f)>>)
              /\ UNCHANGED box
    /\ searching' = FALSE
    /\ SetHash(PathHash(f))
    /\ currentPath' = f
    /\ UNCHANGED <<stage, found, screen>>

\* A click on a folder of the list.
ClickFolder(f) ==
    /\ stage = "ready"
    /\ shown[f] > 0
    /\ IF searching
         THEN breadcrumbsUrls' = GenerateBreadcrumbs(f) /\ box' = "hidden"
         ELSE /\ Len(breadcrumbsUrls) < MaxCrumbs
              /\ breadcrumbsUrls' = Append(breadcrumbsUrls, f)
              /\ UNCHANGED box
    /\ searching' = FALSE
    /\ SetHash(PathHash(f))
    /\ currentPath' = f
    /\ UNCHANGED <<stage, found, screen>>

\* Faulty: the last breadcrumb is a link too.
BugClickCrumb(i) ==
    LET url(j) == IF j \in DOMAIN breadcrumbsUrls THEN breadcrumbsUrls[j] ELSE Hole
    IN  /\ stage = "ready"
        /\ i <= Len(crumbs)
        /\ breadcrumbsUrls' = [j \in 1..(i - 1) |-> url(j)]
        /\ SetHash(PathHash(IF url(i) = Hole THEN Undefined ELSE url(i)))
        /\ UNCHANGED <<stage, box, searching, currentPath, found, screen>>

\* A click on breadcrumb i; the last one is no link.  breadcrumbsUrls is cut, or
\* made longer, to i - 1 elements.
ClickCrumb(i) ==
    LET url(j) == IF j \in DOMAIN breadcrumbsUrls THEN breadcrumbsUrls[j] ELSE Hole
    IN  /\ stage = "ready"
        /\ i < Len(crumbs)
        /\ breadcrumbsUrls' = [j \in 1..(i - 1) |-> url(j)]
        /\ SetHash(PathHash(IF url(i) = Hole THEN Undefined ELSE url(i)))
        /\ UNCHANGED <<stage, box, searching, currentPath, found, screen>>

Next ==
    \/ ScanReturns
    \/ HashChange
    \/ Navigate
    \/ \E h \in Entered : EnterAddress(h)
    \/ OpenSearch
    \/ \E t \in Terms : InputTerm(t)
    \/ InputNothing
    \/ FocusOut
    \/ \E f \in Folders : ClickFolder(f)
    \/ \E i \in 1..MaxCrumbs : ClickCrumb(i)

Spec == Init /\ [][Next]_vars

\* The browser handles the events it has queued.
FairSpec == Spec /\ WF_vars(HashChange)

-----------------------------------------------------------------------------
(* Properties *)

TypeOK ==
    /\ at \in DOMAIN history
    /\ Len(history) <= MaxHistory
    /\ events \in 0..MaxEvents
    /\ stage \in {"loading", "crippled", "ready"}
    /\ box \in {"hidden", "empty", "filled"}
    /\ searching \in BOOLEAN
    /\ currentPath \in Paths \cup {<<>>}
    /\ Range(breadcrumbsUrls) \subseteq Paths \cup {Hole}
    /\ found \in [Nodes -> 0..2]
    /\ shown \in [Nodes -> 0..2]
    /\ Range(crumbs) \subseteq Paths

\* Every event was handled, and the last one did not throw.
Settled == stage # "loading" /\ events = 0 /\ ~Throws(address)

FolderAt(h) == IF h = NoHash THEN Root ELSE h.path

\* The address names an existing folder.
AtFolder == address = NoHash \/ (address.kind = "path" /\ address.path \in Folders)

\* Whatever was clicked, typed or gone back to, and however late the events came:
\* when they are handled, the list is the folder of the address, each item once,
\* and what the next click builds on belongs to it (script.js:99-194).
FolderIsShown ==
    Settled /\ AtFolder =>
      /\ shown = Once({n \in Nodes \ {Root} : Front(n) = FolderAt(address)})
      /\ currentPath = FolderAt(address)
      /\ address # NoHash =>
           breadcrumbsUrls = [i \in DOMAIN address.path |-> SubSeq(address.path, 1, i)]

\* The folder of an address that stays is shown in the end (script.js:18-28).
FolderAppears ==
    \A f \in Folders :
      stage # "loading" /\ address = PathHash(f)
        ~> address # PathHash(f) \/ shown = Once({n \in Nodes \ {Root} : Front(n) = f})

\* No match of a search is missing from its results (script.js:150-163, 229-249).
NothingIsMissing ==
    Settled /\ address.kind = "search" =>
      \A n \in Nodes : Last(n) \in Matching[address.term] => shown[n] > 0

\* At a path, whether it exists or not, a breadcrumb leads to the folder it names:
\* the links on the screen are those of breadcrumbsUrls, which a click looks up by
\* position (script.js:124-136, 354-365).
CrumbsLead ==
    Settled /\ address.kind = "path" => crumbs \in {<<>>, breadcrumbsUrls}

\* The results of a search are its matches, each of them once (script.js:18-28,
\* 231-249).
ResultsAreExact ==
    Settled /\ address.kind = "search" =>
      shown = Once({n \in Nodes : Last(n) \in Matching[address.term]})

\* The list is a rendering of the address: of a folder its items, each once, of a
\* search its matches; and the next click builds on the same place.
Fits(list, place, h) ==
    /\ h = NoHash \/ (h.kind = "path" /\ h.path \in Folders) =>
         list = Once({n \in Nodes \ {Root} : Front(n) = FolderAt(h)})
    /\ h.kind \in {"none", "path"} => place.path = FolderAt(h)
    /\ h.kind = "path" => place.links = GenerateBreadcrumbs(h.path)
    /\ h.kind = "search" =>
         /\ h.term \in DOMAIN Matching
         /\ \A n \in Nodes : Last(n) \in Matching[h.term] => list[n] > 0

View == INSTANCE Viewer WITH
    Blank   <- Throws,
    pending <- stage = "loading" \/ events > 0,
    list    <- shown,
    place   <- [path |-> currentPath, links |-> breadcrumbsUrls]

\* Handler by handler, script.js is a Viewer: the list changes only by goto and fits
\* the address then; a handler that changes currentPath or breadcrumbsUrls leaves an
\* event whose goto sets them again, however the hash it assigns compares with the
\* present one (script.js:18-194, 280-365).
ImplementsViewer == View!Spec
=============================================================================
