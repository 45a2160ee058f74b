------------------------------ MODULE PagedList ------------------------------
(***************************************************************************)
(* The lists that are read page by page, for data sources: groups,         *)
(* instances and SSH keys ("plain"), instance types ("counted", their      *)
(* pages repeat the total) and bills ("bills", an empty answer is an       *)
(* error with a code of its own).  The API has no snapshot: rows come and  *)
(* go between two pages.                                                   *)
(***************************************************************************)
EXTENDS ClientRequest, Sequences, FiniteSets

CONSTANTS
    PageSize, MaxPages,
    MaxRows     \* bound: rows that exist during one traversal

ASSUME PagesPositive == PageSize \in Nat \ {0} /\ MaxPages \in Nat \ {0} /\ MaxRows \in Nat

VARIABLES
    rows,       \* the collection, in the order the API lists it
    born,       \* rows that ever were in it, numbered in that order
    before,     \* history: how many there were when the traversal began
    list,       \* which kind of list is read
    reading,    \* "off", "reading", "published" or "failed"
    page,       \* the page that is asked for
    total,      \* the total the pages repeat, or None
    got,        \* the identities collected
    size        \* how many rows have been collected

listVars == <<rows, born, before, list, reading, page, total, got, size>>

Kinds == {"plain", "counted", "bills"}

ListTypeOK ==
    /\ born \in Nat /\ before \in Nat
    /\ rows \in Seq(1 .. born)
    /\ list \in Kinds
    /\ reading \in {"off", "reading", "published", "failed"}
    /\ page \in 1 .. MaxPages
    /\ total \in Nat \cup {None}
    /\ got \subseteq 1 .. born
    /\ size \in Nat

NoList ==
    /\ rows = <<>> /\ born = 0 /\ before = 0
    /\ list = "plain" /\ reading = "off" /\ page = 1
    /\ total = None /\ got = {} /\ size = 0

\* Core has taken over what was read; the provider keeps nothing of it.
ForgetList ==
    /\ rows' = <<>> /\ born' = 0 /\ before' = 0
    /\ list' = "plain" /\ reading' = "off" /\ page' = 1
    /\ total' = None /\ got' = {} /\ size' = 0

-----------------------------------------------------------------------------
\* The collection changes while it is read.  An identity is never used again.

InsertRow ==
    /\ reading = "reading" /\ born < MaxRows
    /\ \E p \in 1 .. Len(rows) + 1 :
        rows' = [i \in 1 .. Len(rows) + 1 |->
                    IF i < p THEN rows[i] ELSE IF i = p THEN born + 1 ELSE rows[i - 1]]
    /\ born' = born + 1
    /\ UNCHANGED <<before, list, reading, page, total, got, size>>

RemoveRow ==
    /\ reading = "reading"
    /\ \E p \in 1 .. Len(rows) :
        rows' = [i \in 1 .. Len(rows) - 1 |-> IF i < p THEN rows[i] ELSE rows[i + 1]]
    /\ UNCHANGED <<born, before, list, reading, page, total, got, size>>

\* The rows of the page that is asked for, as the API cuts them.
Batch == {i \in 1 .. Len(rows) : i > (page - 1) * PageSize /\ i <= page * PageSize}
BatchIds == {rows[i] : i \in Batch}

\* A billing list without any row is refused with EMPTY_SET.  What the code
\* means on a later page, nobody has seen.
Truthful == outcome' = "empty" /\ page = 1 => rows = <<>>

-----------------------------------------------------------------------------
StartList ==
    /\ reading = "off"
    /\ \E k \in Kinds, n \in 0 .. MaxRows :
        /\ list' = k /\ born' = n /\ before' = n /\ rows' = [i \in 1 .. n |-> i]
    /\ reading' = "reading"
    /\ UNCHANGED <<page, total, got, size>>

Collection == <<rows, born, before, list>>

FailList == reading' = "failed" /\ UNCHANGED <<Collection, page, total, got, size>>

\* The loop tests the context and asks for the page.
AskPage ==
    /\ reading = "reading" /\ stage = "idle"
    /\ \/ ~cancelled /\ Begin("get") /\ UNCHANGED listVars
       \/ cancelled /\ FailList /\ UNCHANGED callVars

\* A row that was seen on an earlier page.
Repeats == BatchIds \cap got # {}

\* The total of a counted list: the same on every page, and met by the rows.
\* (Fault: the total of the last page is the one that counts.)
TotalAgrees_Last ==
    list = "counted" =>
        /\ size + Cardinality(Batch) <= Len(rows)
        /\ Cardinality(Batch) < PageSize => size + Cardinality(Batch) = Len(rows)
TotalAgrees ==
    list = "counted" =>
        /\ total \in {None, Len(rows)}
        /\ size + Cardinality(Batch) <= Len(rows)
        /\ Cardinality(Batch) < PageSize => size + Cardinality(Batch) = Len(rows)

LastPage == \/ Cardinality(Batch) < PageSize
            \/ list = "counted" /\ size + Cardinality(Batch) = Len(rows)

\* A valid page is collected: the traversal ends, goes on, or reaches its limit.
\* (Fault: nothing limits the number of pages.)
Collect_NoLimit ==
    /\ ~Repeats /\ TotalAgrees
    /\ got' = got \cup BatchIds /\ size' = size + Cardinality(Batch)
    /\ total' = IF list = "counted" THEN Len(rows) ELSE None
    /\ IF LastPage THEN reading' = "published" /\ UNCHANGED page
       ELSE page' = page + 1 /\ UNCHANGED reading
    /\ UNCHANGED Collection

Collect ==
    /\ ~Repeats /\ TotalAgrees
    /\ got' = got \cup BatchIds /\ size' = size + Cardinality(Batch)
    /\ total' = IF list = "counted" THEN Len(rows) ELSE None
    /\ IF LastPage THEN reading' = "published" /\ UNCHANGED page
       ELSE IF page < MaxPages THEN page' = page + 1 /\ UNCHANGED reading
       ELSE reading' = "failed" /\ UNCHANGED page
    /\ UNCHANGED Collection

\* What the loop does with the answer to its call: a malformed page, or metadata
\* that do not fit, are failures like any error.
\* (Fault: the empty answer ends the traversal on every page.)
TakePage_AnyEmpty ==
    \/ outcome' = "ok" /\ Collect
    \/ outcome' = "empty" /\ list = "bills"
       /\ reading' = "published" /\ UNCHANGED <<Collection, page, total, got, size>>
    \/ FailList

TakePage ==
    \/ outcome' = "ok" /\ Collect
    \/ outcome' = "empty" /\ list = "bills" /\ page = 1
       /\ reading' = "published" /\ UNCHANGED <<Collection, page, total, got, size>>
    \/ ~(outcome' = "empty" /\ list = "bills" /\ page = 1) /\ FailList

-----------------------------------------------------------------------------
\* Rows that were listed from the beginning to the end of the traversal.
Steady == {rows[i] : i \in 1 .. Len(rows)} \cap 1 .. before
SomeRemoved == Len(rows) < born
SomeInserted == born > before

\* A list is published without a repeated row, and, unless a row was removed while
\* it was read, with every row that was there all the time: rows inserted before
\* or behind the page that is read, a late error and the page limit never make a
\* partial list look complete.  (A removal may: the API has no snapshot.)
ListComplete ==
    reading = "published" =>
        /\ size = Cardinality(got)
        /\ ~SomeRemoved => Steady \subseteq got

\* In a counted list removals do not hide rows either, unless insertions make up
\* for them in the total.
CountedComplete ==
    reading = "published" /\ list = "counted" /\ ~(SomeRemoved /\ SomeInserted) =>
        Steady \subseteq got

\* A read returns, although a data source sets no deadline: every exchange is
\* bounded by the client, and the traversal by its page limit.
ReadReturns == (reading = "reading") ~> (reading # "reading")
=============================================================================
