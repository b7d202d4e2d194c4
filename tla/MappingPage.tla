----------------------------- MODULE MappingPage -----------------------------
(***************************************************************************)
(* The administrator's page of Slack mappings (SlackMappingsClient.tsx):   *)
(* the table that is fetched again whenever its filters, order or page     *)
(* change, and the operations on mappings that reload it when they are     *)
(* done.  An event handler and the effects of its render are one step;     *)
(* answers arrive later.  Its ComposePanel has a module of its own.        *)
(***************************************************************************)
EXTENDS Naturals, FiniteSets

CONSTANTS
  Views,        \* settings of the filters and the order
  Pages,        \* 1..n
  MaxActs       \* bound: what the operator does

ASSUME PageAssumption == MaxActs \in Nat /\ 1 \in Pages /\ Pages \subseteq Nat

VARIABLES
  typed,        \* filters as typed
  view,         \* debouncedFilters, sort and dir
  page,
  fetches,      \* requests for rows whose answer is awaited
  loading,
  shown,        \* the page and view the rows belong to, and how new they are
  operations,   \* refreshes, overrides and imports under way
  locked,       \* refreshing
  version,      \* how often the mappings have been written
  written,      \* history: version after the operator's last finished operation
  adrift,       \* history: the last reload was for a view left meanwhile
  failed,       \* history: the last fetch failed
  acts

pageVars == <<typed, view, page, fetches, loading, shown, operations, locked,
              version, written, adrift, failed, acts>>

Asked(p, v) == [page |-> p, view |-> v]

PageTypeOK ==
  /\ typed \in Views /\ view \in Views /\ page \in Pages
  /\ \A f \in fetches : f.page \in Pages /\ f.view \in Views
  /\ Cardinality(fetches) <= 1
  /\ shown.page \in Pages /\ shown.view \in Views
  /\ shown.version <= version /\ written <= version
  /\ locked \in BOOLEAN /\ adrift \in BOOLEAN /\ failed \in BOOLEAN

PageInit ==
  /\ \E v \in Views : typed = v /\ view = v /\ shown = [page |-> 1, view |-> v, version |-> 0]
  /\ page = 1 /\ fetches = {} /\ loading = FALSE
  /\ operations = {} /\ locked = FALSE /\ version = 0 /\ written = 0
  /\ adrift = FALSE /\ failed = FALSE
  /\ acts = 0

Act == acts < MaxActs /\ acts' = acts + 1

-----------------------------------------------------------------------------
(* fetchPage aborts the request before it; the aborted one's finally block *)
(* runs next and clears the loading sign of the new one.  Mutant: nothing  *)
(* is aborted.                                                             *)
FetchPageKeeping(p, v, silent) ==
  /\ fetches' = fetches \cup {[page |-> p, view |-> v, silent |-> silent, read |-> FALSE,
                              version |-> 0]}
  /\ loading' = (loading \/ ~silent)
FetchPage(p, v, silent) ==
  /\ fetches' = {[page |-> p, view |-> v, silent |-> silent, read |-> FALSE, version |-> 0]}
  /\ loading' = IF silent THEN loading /\ \A f \in fetches : f.silent
                ELSE \A f \in fetches : f.silent

Refetch(p, v) == FetchPage(p, v, FALSE) /\ adrift' = FALSE

(* A keystroke or a selection in a filter; the debounce starts again.      *)
UpdateFilter ==
  /\ Act
  /\ \E v \in Views \ {typed} : typed' = v
  /\ UNCHANGED <<view, page, fetches, loading, shown, operations, locked, version,
                 written, adrift, failed>>

(* 250 ms later: one effect goes to the first page, another fetches.       *)
Debounced ==
  /\ typed # view
  /\ view' = typed /\ page' = 1
  /\ Refetch(1, typed)
  /\ UNCHANGED <<typed, shown, operations, locked, version, written, failed, acts>>

(* Prev and Next are disabled while the rows are loading.                  *)
TurnPage ==
  /\ Act /\ ~loading
  /\ \E p \in Pages \cap {page - 1, page + 1} : page' = p /\ Refetch(p, view)
  /\ UNCHANGED <<typed, view, shown, operations, locked, version, written, failed>>

ServerReads(f) ==
  /\ f \in fetches /\ ~f.read
  /\ fetches' = (fetches \ {f}) \cup {[f EXCEPT !.read = TRUE, !.version = version]}
  /\ UNCHANGED <<typed, view, page, loading, shown, operations, locked, version,
                 written, adrift, failed, acts>>

(* The answer: rows, counts and the page it is for; if that is another page*)
(* than the current one, the effect fetches once more.                     *)
PageArrives(f) ==
  /\ f \in fetches /\ f.read
  /\ shown' = [page |-> f.page, view |-> f.view, version |-> f.version]
  /\ page' = f.page /\ failed' = FALSE
  /\ IF f.page # page THEN Refetch(f.page, view)
     ELSE /\ fetches' = fetches \ {f} /\ UNCHANGED adrift
          /\ loading' = (loading /\ f.silent)
  /\ UNCHANGED <<typed, view, operations, locked, version, written, acts>>

(* Mutant: the loading sign stays on when a request fails.                 *)
PageFailsLoading(f) ==
  /\ f \in fetches
  /\ fetches' = fetches \ {f} /\ failed' = TRUE
  /\ UNCHANGED <<typed, view, page, loading, shown, operations, locked, version, written,
                 adrift, acts>>
PageFails(f) ==
  /\ f \in fetches
  /\ fetches' = fetches \ {f} /\ failed' = TRUE
  /\ loading' = (loading /\ f.silent)
  /\ UNCHANGED <<typed, view, page, shown, operations, locked, version, written,
                 adrift, acts>>

-----------------------------------------------------------------------------
(* Refreshing all, or refreshing, overriding or clearing one row.  The     *)
(* handler keeps the view and the page of the render it was made in.  The  *)
(* import of a sheet refreshes all without looking at the lock.            *)
Operations == {"all", "one", "import"}

Operate(kind) ==
  /\ Act
  /\ kind # "import" => ~locked
  /\ Cardinality(operations) < 2
  /\ operations' = operations \cup
       {[id |-> acts, page |-> IF kind = "one" THEN page ELSE 1, view |-> view,
         silent |-> kind = "one", done |-> 0]}
  /\ locked' = TRUE
  /\ UNCHANGED <<typed, view, page, fetches, loading, shown, version, written, adrift,
                 failed>>

ServerWrites(o) ==
  /\ o \in operations /\ o.done = 0
  /\ version' = version + 1
  /\ operations' = (operations \ {o}) \cup {[o EXCEPT !.done = version + 1]}
  /\ UNCHANGED <<typed, view, page, fetches, loading, shown, locked, written, adrift,
                 failed, acts>>

(* Its answer reloads the table.  Mutant: it does not.                     *)
ReloadNothing(o) == UNCHANGED <<fetches, loading>>
Reload(o) == FetchPage(o.page, o.view, o.silent)

OperationEnds(o) ==
  /\ o \in operations /\ o.done > 0
  /\ Reload(o)
  /\ adrift' = (o.view # view)
  /\ written' = IF o.done > written THEN o.done ELSE written
  /\ operations' = operations \ {o}
  /\ locked' = FALSE
  /\ UNCHANGED <<typed, view, page, shown, version, failed, acts>>

-----------------------------------------------------------------------------
PageNext ==
  \/ UpdateFilter \/ Debounced \/ TurnPage
  \/ \E f \in fetches : ServerReads(f) \/ PageArrives(f) \/ PageFails(f)
  \/ \E kind \in Operations : Operate(kind)
  \/ \E o \in operations : ServerWrites(o) \/ OperationEnds(o)

PageSpec == PageInit /\ [][PageNext]_pageVars

-----------------------------------------------------------------------------
(* Properties.                                                             *)

Quiet == fetches = {} /\ typed = view /\ ~failed

(* When nothing is under way the rows are those of the page and the view   *)
(* that the controls show (comment at abortRef: a slow first request must  *)
(* not "clobber the visible state with stale rows"), unless the last reload*)
(* was for the view that an operation had been started in.                 *)
ShownIsAsked ==
  Quiet /\ ~adrift => Asked(shown.page, shown.view) = Asked(page, view)

(* The operator sees the effect of an operation that has ended, however    *)
(* its reload, later fetches and other operations interleave.              *)
OwnWritesShown == fetches = {} /\ ~failed => shown.version >= written

(* The loading sign goes out with the last request, also after aborts and  *)
(* failures; it would disable Prev and Next for good.                      *)
LoadingIsTrue == loading => \E f \in fetches : ~f.silent

(* The invariant of the table.                                             *)
PageInv == PageTypeOK /\ ShownIsAsked /\ OwnWritesShown /\ LoadingIsTrue
=============================================================================
