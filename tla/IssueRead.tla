-------------------------------- MODULE IssueRead --------------------------------
(***************************************************************************)
(* Reading an issue with its whole discussion (get_issue,                  *)
(* get_issue_comments) while people edit it.  GitHub gives it out in       *)
(* pieces: the issue itself with its number of comments, and the comments  *)
(* page by page.  What is read becomes the evidence that a candidate is    *)
(* chosen and bound by.                                                    *)
(***************************************************************************)
EXTENDS Naturals, Sequences, FiniteSets

CONSTANTS
    PageSize,       \* comments on a page; 100 in the code
    MaxComments,    \* max_comments; 500 in the code
    MaxEdits        \* bound: changes to the issue

IssueReadConstants ==
    PageSize \in Nat \ {0} /\ MaxComments \in Nat \ {0} /\ MaxEdits \in Nat

VARIABLES
    issue,      \* on GitHub: its own version and its comments, each an id and a version
    edits,      \* changes so far; the number of the last one names ids and versions
    pc,         \* what is read next
    page, comments,         \* the discussion being read
    initial, first,         \* the first metadata and the first discussion
    result,     \* what get_issue returned
    seen        \* history: every state of the issue since the read began

vars == <<issue, edits, pc, page, comments, initial, first, result, seen>>

Nothing == [version |-> 0, comments |-> <<>>]
Comment(id, version) == [id |-> id, version |-> version]

\* The issue begins with any number of comments, up to one too many.
Init ==
    /\ \E n \in 0 .. MaxComments + 1 :
          issue = [version |-> 0, comments |-> [i \in 1 .. n |-> Comment(i, 0)]]
    /\ edits = 0
    /\ pc = "idle"
    /\ page = 0 /\ comments = <<>>
    /\ initial = <<0, 0>> /\ first = <<>>
    /\ result = Nothing /\ seen = {}

------------------------------------------------------------------------------
(* People. *)

Without(s, i) == SubSeq(s, 1, i - 1) \o SubSeq(s, i + 1, Len(s))

\* Someone edits the issue, comments, edits a comment or deletes one.  Ids and
\* times of updates are never used again.
Edit ==
    /\ pc # "idle" /\ edits < MaxEdits
    /\ edits' = edits + 1
    /\ LET new == edits' + MaxComments + 1 IN
       \/ issue' = [issue EXCEPT !.version = new]
       \/ issue' = [issue EXCEPT !.comments = Append(@, Comment(new, new))]
       \/ \E i \in DOMAIN issue.comments : issue' = [issue EXCEPT !.comments[i].version = new]
       \/ \E i \in DOMAIN issue.comments :
             issue' = [issue EXCEPT !.comments = Without(@, i)]
    /\ seen' = IF pc = "done" THEN seen ELSE seen \cup {issue'}
    /\ UNCHANGED <<pc, page, comments, initial, first, result>>

------------------------------------------------------------------------------
(* get_issue. *)

\* read_metadata: the issue and the number of its comments.
Metadata == <<issue.version, Len(issue.comments)>>

Fail ==
    /\ pc' = "failed"
    /\ page' = 0 /\ comments' = <<>>
    /\ UNCHANGED <<initial, first, result>>

Start ==
    /\ pc = "idle"
    /\ seen' = {issue}
    /\ initial' = Metadata
    /\ IF initial'[2] > MaxComments THEN pc' = "failed" /\ UNCHANGED page
       ELSE pc' = "first" /\ page' = 1
    /\ UNCHANGED <<issue, edits, comments, first, result>>

\* What GitHub has on a page now.
PageOf(s, n) ==
    SubSeq(s, (n - 1) * PageSize + 1, IF n * PageSize < Len(s) THEN n * PageSize ELSE Len(s))

\* Only a page that is not full is the last.
LastPage(data) == Len(data) < PageSize

Ids(s) == {s[i].id : i \in DOMAIN s}
Pages == MaxComments \div PageSize + 1

\* Mutant: the confirming discussion is not compared.
Confirmed_unread(all) == TRUE

\* The discussion is the same as the first time.
Confirmed(all) == all = first

\* get_issue_comments, one page: it must repeat no comment, stay within the limit,
\* and in the end hold as many as the metadata announced.
ReadPage ==
    /\ pc \in {"first", "second"}
    /\ LET data == PageOf(issue.comments, page)
           all == comments \o data
       IN IF \/ Cardinality(Ids(all)) # Len(all)
             \/ Len(all) > MaxComments
             \/ ~LastPage(data) /\ page = Pages
             \/ LastPage(data) /\ Len(all) # initial[2]
             \/ LastPage(data) /\ pc = "second" /\ ~Confirmed(all)
          THEN Fail
          ELSE IF ~LastPage(data)
          THEN page' = page + 1 /\ comments' = all /\ UNCHANGED <<pc, initial, first, result>>
          ELSE /\ pc' = IF pc = "first" THEN "middle" ELSE "confirm"
               /\ page' = 1 /\ comments' = <<>>
               /\ first' = all
               /\ UNCHANGED <<initial, result>>
    /\ UNCHANGED <<issue, edits, seen>>

\* The metadata again, between the discussions and after them.
ReadMetadata ==
    /\ pc \in {"middle", "confirm"}
    /\ IF Metadata # initial THEN Fail
       ELSE /\ pc' = IF pc = "middle" THEN "second" ELSE "done"
            /\ result' = IF pc = "middle" THEN result
                         ELSE [version |-> initial[1], comments |-> first]
            /\ UNCHANGED <<page, comments, initial, first>>
    /\ UNCHANGED <<issue, edits, seen>>

Finished == pc \in {"done", "failed"} /\ UNCHANGED vars

Next == Edit \/ Start \/ ReadPage \/ ReadMetadata \/ Finished

Spec == Init /\ [][Next]_vars

------------------------------------------------------------------------------
(* Properties. *)

\* What get_issue returns is a whole: the issue had exactly this text and exactly
\* these comments at one instant of the read, however many pages were read and
\* whatever was edited, added or deleted between them.
ReadIsWhole == pc = "done" => result \in seen
===============================================================================
