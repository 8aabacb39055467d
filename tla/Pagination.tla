----------------------------- MODULE Pagination -----------------------------
(***************************************************************************)
(* The page arithmetic of pagination.util.ts, and of the pagination block  *)
(* that successWithPagination of Response.util.ts computes in the same     *)
(* way.  A number that was not given, or is 0 or no number, is 0 here:     *)
(* the code tests all of them with ||.                                     *)
(***************************************************************************)
EXTENDS Integers, FiniteSets

Larger(a, b) == IF a >= b THEN a ELSE b
Smaller(a, b) == IF a <= b THEN a ELSE b

DefaultPage == 1
DefaultLimit == 20
MaxLimit == 100

ParsePaginationOptions(page, limit) ==
    [page |-> Larger(1, IF page = 0 THEN DefaultPage ELSE page),
     limit |-> Smaller(MaxLimit, Larger(1, IF limit = 0 THEN DefaultLimit ELSE limit))]

CalculateSkip(page, limit) == (page - 1) * limit

\* Math.ceil(total / limit)
CalculateTotalPages(total, limit) == (total + limit - 1) \div limit

CreatePaginatedResult(total, page, limit) ==
    LET totalPages == CalculateTotalPages(total, limit)
    IN  [totalPages |-> totalPages, hasNext |-> page < totalPages, hasPrev |-> page > 1]

IsValidPage(page, totalPages) == page >= 1 /\ page <= totalPages

\* null when there is no such page.
NoPage == 0
GetNextPage(current, totalPages) == IF current < totalPages THEN current + 1 ELSE NoPage
GetPrevPage(current) == IF current > 1 THEN current - 1 ELSE NoPage

\* The numbers a page selector shows.
GetPageRange(current, totalPages, maxVisible) ==
    LET first == Larger(1, current - maxVisible \div 2)
        end == Smaller(totalPages, first + maxVisible - 1)
        start == IF end - first + 1 < maxVisible THEN Larger(1, end - maxVisible + 1)
                 ELSE first
    IN  start .. end
-----------------------------------------------------------------------------
(***************************************************************************)
(* What the arithmetic promises, for totals, pages and limits up to 4: the *)
(* options are made sensible, the pages hold every item once, hasNext says *)
(* whether items follow, next and previous page lead to valid pages and    *)
(* back again, and the selector shows as many pages as it may, the current *)
(* one among them (PaginationUtil).                                        *)
(***************************************************************************)
PageArithmetic ==
    \A total \in 0..4, page \in -1..4, limit \in -1..4 :
      LET options == ParsePaginationOptions(page, limit)
          result == CreatePaginatedResult(total, options.page, options.limit)
          before(p) == CalculateSkip(p, options.limit)
          items(p) == before(p) + 1 .. Smaller(total, before(p + 1))
      IN  /\ options.page >= 1 /\ options.limit \in 1..MaxLimit
          /\ UNION {items(p) : p \in 1..result.totalPages} = 1..total
          /\ \A p \in 1..result.totalPages : items(p) # {}
          /\ result.hasNext <=> before(options.page + 1) < total
          /\ \A p \in 1..result.totalPages :
               LET next == GetNextPage(p, result.totalPages)
               IN  /\ next # NoPage <=> p < result.totalPages
                   /\ next # NoPage => /\ IsValidPage(next, result.totalPages)
                                       /\ GetPrevPage(next) = p
          /\ \A current \in 1..result.totalPages, visible \in 1..4 :
               LET range == GetPageRange(current, result.totalPages, visible)
               IN  /\ current \in range /\ range \subseteq 1..result.totalPages
                   /\ Cardinality(range) = Smaller(visible, result.totalPages)
=============================================================================
