------------------------------- MODULE Drafts -------------------------------
(***************************************************************************)
(* The draft of a service's configuration and the pages that edit it.      *)
(*                                                                         *)
(* A page (service-configuration-view.tsx) recovers the stored draft,      *)
(* saves what it shows 700 ms after each change with the version it last   *)
(* saw, and takes the new version from the answer.  A save replaces the    *)
(* draft only if it carries the draft's version.  The store is the memory  *)
(* one or the PostgreSQL one, which differ.                                *)
(***************************************************************************)
EXTENDS Integers, FiniteSets, Functions

CONSTANTS Pages,             \* tabs of one user on one project
          DurableStore,      \* TRUE: PostgresConfigurationStore
          MaxDraftVersion,   \* bound: saves the store accepts
          MaxEdits           \* bound: edits of each page

ASSUME DraftAssumption ==
    /\ DurableStore \in BOOLEAN /\ MaxDraftVersion \in Nat /\ MaxEdits \in Nat

VARIABLES draft,         \* the stored row; version 0: none
          pages,         \* the state of each page
          saves,         \* PUTs and their answers on the way
          seen,          \* history: the versions each page has read or written
          refusals,      \* history: the version a refused save carried, and the stored one
          overwrites     \* history: replaced versions the saving page had not seen

draftVars == <<draft, pages, saves, seen, refusals, overwrites>>

NoContent == [page |-> "none", edit |-> 0]
Contents == [page : Pages, edit : 1..MaxEdits] \cup {NoContent}

DraftInit ==
    /\ draft = [version |-> 0, content |-> NoContent]
    /\ pages = [p \in Pages |-> [version |-> 0, content |-> NoContent,
                                 edits |-> 0, loaded |-> FALSE, dirty |-> FALSE]]
    /\ saves = {} /\ refusals = {} /\ overwrites = {}
    /\ seen = [p \in Pages |-> {0}]

\* a page that opens takes the stored draft over, if there is one
RecoverDraft(p) ==
    /\ ~pages[p].loaded
    /\ pages' = [pages EXCEPT ![p] =
         IF draft.version = 0 THEN [@ EXCEPT !.loaded = TRUE]
         ELSE [@ EXCEPT !.loaded = TRUE, !.dirty = TRUE,
                        !.version = draft.version, !.content = draft.content]]
    /\ seen' = [seen EXCEPT ![p] = @ \cup {draft.version}]
    /\ UNCHANGED <<draft, saves, refusals, overwrites>>

EditDraft(p) ==
    /\ pages[p].edits < MaxEdits
    /\ pages' = [pages EXCEPT ![p].edits = @ + 1, ![p].dirty = TRUE,
                              ![p].content = [page |-> p, edit |-> pages[p].edits + 1]]
    /\ UNCHANGED <<draft, saves, seen, refusals, overwrites>>

Autosave(p) ==
    /\ pages[p].dirty
    /\ saves' = saves \cup {[page |-> p, version |-> pages[p].version,
                             content |-> pages[p].content, answer |-> "none"]}
    /\ pages' = [pages EXCEPT ![p].dirty = FALSE]
    /\ UNCHANGED <<draft, seen, refusals, overwrites>>

\* Mutant: the version is not compared.
AcceptsAny(version) == TRUE

\* the memory store compares versions, 0 when there is no draft; PostgreSQL
\* inserts a row only for version 0, and reaches the comparison only if it does
Accepts(version) ==
    IF DurableStore
    THEN version = 0 /\ draft.version = 0
    ELSE version = draft.version

SaveDraft(q) ==
    /\ q.answer = "none" /\ draft.version < MaxDraftVersion
    /\ IF Accepts(q.version)
       THEN /\ draft' = [version |-> draft.version + 1, content |-> q.content]
            /\ saves' = (saves \ {q}) \cup {[q EXCEPT !.answer = "saved",
                                                      !.version = draft.version + 1]}
            /\ seen' = [seen EXCEPT ![q.page] = @ \cup {draft.version + 1}]
            /\ overwrites' = overwrites \cup ({draft.version} \ seen[q.page])
            /\ UNCHANGED refusals
       ELSE /\ saves' = (saves \ {q}) \cup {[q EXCEPT !.answer = "conflict"]}
            /\ refusals' = refusals \cup {[carried |-> q.version, stored |-> draft.version]}
            /\ UNCHANGED <<draft, seen, overwrites>>
    /\ UNCHANGED pages

\* the version is a dependency of the effect: a new one starts the timer again
Answered(q) ==
    /\ q.answer # "none"
    /\ saves' = saves \ {q}
    /\ IF q.answer = "saved" /\ pages[q.page].version # q.version
       THEN pages' = [pages EXCEPT ![q.page].version = q.version, ![q.page].dirty = TRUE]
       ELSE UNCHANGED pages
    /\ UNCHANGED <<draft, seen, refusals, overwrites>>

DraftNext ==
    \/ \E p \in Pages : RecoverDraft(p) \/ EditDraft(p) \/ Autosave(p)
    \/ \E q \in saves : SaveDraft(q) \/ Answered(q)

DraftSpec == DraftInit /\ [][DraftNext]_draftVars

-----------------------------------------------------------------------------
Versions == 0..MaxDraftVersion

DraftTypeOK ==
    /\ draft \in [version : Versions, content : Contents]
    /\ pages \in [Pages -> [version : Versions, content : Contents,
                            edits : 0..MaxEdits, loaded : BOOLEAN, dirty : BOOLEAN]]
    /\ saves \subseteq [page : Pages, version : Versions, content : Contents,
                        answer : {"none", "saved", "conflict"}]
    /\ seen \in [Pages -> SUBSET Versions] /\ overwrites \subseteq Versions
    /\ refusals \subseteq [carried : Versions, stored : Versions]

\* No save replaces a draft its page had not seen, however many pages and
\* saves are under way (saveDraft).
NothingOverwritten == overwrites = {}

-----------------------------------------------------------------------------
\* docs/SERVICE_DETECTION_CONFIGURATION.md: drafts autosave with increasing
\* versions and a stale version is refused, so one that is not stale is saved.
RefusedOnlyWhenStale == \A r \in refusals : r.carried # r.stored
=============================================================================
