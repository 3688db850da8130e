----------------------------- MODULE SwapMatching -----------------------------
(***************************************************************************)
(* The order books of one pair of tokens in one eon.  Clients put in swaps *)
(* (swapper/serializers/swap.py); the accounting worker matches them every *)
(* second (swapper/tasks/process_swaps.py), in one database transaction    *)
(* per run that an AssertionError rolls back as a whole.                   *)
(*                                                                         *)
(* A swap is stamped with the time when its request comes in, before it    *)
(* waits for the locks; its row appears, with an id, when it has got them. *)
(* Swaps are named by the rank of their stamp, `ids` lists them in the     *)
(* order of their ids.  Stamps are in microseconds, a run remembers the    *)
(* last it took plus one millisecond: a swap that was stamped within that  *)
(* millisecond and appears after the run is never taken.                   *)
(*                                                                         *)
(* The ORM gives out objects: the query of the unprocessed swaps makes one *)
(* of each row ("swap"), the query of an order book another ("row").  Each *)
(* has its own copy of `complete`, so an entry of a book says which of the *)
(* two it is.                                                              *)
(*                                                                         *)
(* A run is a sequence of steps here, and no swap appears during it: the   *)
(* run reads the unprocessed swaps once, its books leave out higher ids,   *)
(* and rows are taken to appear in the order of their ids (that a row with *)
(* a lower id is committed after one with a higher id is not modelled).    *)
(* The rows it reads are locked by SELECT ... FOR UPDATE.                  *)
(*                                                                         *)
(* Not modelled here: that a swap expires or is voided or cancelled, and   *)
(* what the matches do to the balances.  Worse, DoneYounger and NotAddedTo *)
(* are faulty variants of the definition that follows each: no action uses *)
(* them, the runs reject them.                                             *)
(***************************************************************************)
EXTENDS LimitMatching, Sequences, FiniteSets, SequencesExt

CONSTANTS
  Tokens,      \* the two tokens of the pair
  NumSwaps,    \* bound: the number of swaps
  Amounts,     \* the amounts swaps pay and ask for
  NoBook,      \* the value of an order book that is not cached
  Millisecond  \* [n]: the first stamp a millisecond after that of n, or later

Swaps == 1 .. NumSwaps

ASSUME SwapAssumption ==
  /\ \E t, u \in Tokens : t # u /\ Tokens = {t, u}
  /\ NumSwaps \in Nat
  /\ Amounts \subseteq Nat \ {0}
  /\ Millisecond \in [Swaps -> 2 .. NumSwaps + 1]
  /\ \A n \in Swaps : n < Millisecond[n]
  /\ \A m, n \in Swaps : m < n => Millisecond[m] <= Millisecond[n]

VARIABLES
  orders,     \* [n]: the order of a swap that has appeared
  ids,        \* the swaps in the order of their ids
  filled,     \* [n]: the sums over its Matching rows
  complete,   \* the swaps whose row is complete
  matches,    \* the Matching rows, as pairs << left, right >>
  notified,   \* the pairs whose wallets were told of a match
  last_unprocessed_swap_time,   \* the first stamp that was not looked at
  run,        \* the run in progress
  refused,    \* history: the pairs match_limit_to_limit turned down
  skipped,    \* history: the swaps that appeared when the stamp was past them
  lost        \* history: the swaps whose run was lost as it committed

table == << orders, ids >>
result == << filled, complete, matches >>
told == << notified, last_unprocessed_swap_time >>
unseen == << skipped, lost >>
vars == << table, result, told, run, refused, unseen >>

Nothing == [out |-> 0, in |-> 0]

(* `todo` are the swaps still to take; `swap` is being matched with the    *)
(* entries of `book` from number `next` on; `books` is order_books_cache,  *)
(* `fulfilled` the objects with complete=True, `last` the stamp the run    *)
(* has come to, and `saved` what a rollback restores.  `past` is history:  *)
(* the stamp behind that of the last swap, without the millisecond.        *)
NoRun == [at |-> "idle", todo |-> {}, swap |-> 0,
          books |-> [t \in Tokens |-> NoBook], book |-> << >>, next |-> 1,
          opposite_orders_consumed |-> 0, matched_successfully |-> FALSE,
          notification_queue |-> {}, fulfilled |-> {},
          last |-> 0, past |-> 0, saved |-> NoBook]

Init ==
  /\ orders = << >>
  /\ ids = << >>
  /\ filled = [n \in Swaps |-> Nothing]
  /\ complete = {}
  /\ matches = {}
  /\ notified = {}
  /\ last_unprocessed_swap_time = 1
  /\ run = NoRun
  /\ refused = {}
  /\ skipped = {}
  /\ lost = {}

Placed == ToSet(ids)
IdOf(n) == CHOOSE i \in DOMAIN ids : ids[i] = n

-----------------------------------------------------------------------------
(* SwapSerializer.create: the swap appears, signed by the operator.        *)
CreateSwap(n) ==
  \E order \in Order(Tokens, Amounts) :
    /\ run.at = "idle"
    /\ n \notin Placed
    /\ orders' = [m \in Placed \cup {n} |-> IF m = n THEN order ELSE orders[m]]
    /\ ids' = Append(ids, n)
    /\ skipped' = skipped \cup {m \in {n} : m < last_unprocessed_swap_time}
    /\ UNCHANGED << result, told, run, refused, lost >>

-----------------------------------------------------------------------------
(* process_swaps_for_eon.                                                  *)

Unprocessed ==
  {n \in Placed : n >= last_unprocessed_swap_time /\ n \notin complete}

StartRun ==
  /\ run.at = "idle"
  /\ Unprocessed # {}
  /\ run' = [NoRun EXCEPT !.at = "swaps",
                          !.todo = Unprocessed,
                          !.last = last_unprocessed_swap_time,
                          !.past = last_unprocessed_swap_time,
                          !.saved = [filled |-> filled, complete |-> complete,
                                     matches |-> matches]]
  /\ UNCHANGED << table, result, told, refused, unseen >>

(* Every second there is a run, mostly without a new swap.                 *)
SkipRun ==
  /\ run.at = "idle"
  /\ Unprocessed = {}
  /\ UNCHANGED vars

(* A faulty variant: the comparison is reversed.                           *)
Worse(m, n) ==
  orders[m].amount * orders[n].amount_swapped
    < orders[n].amount * orders[m].amount_swapped

(* A book is sorted by the price its orders offer, best first.             *)
Better(m, n) ==
  orders[m].amount * orders[n].amount_swapped
    > orders[n].amount * orders[m].amount_swapped

(* The open swaps on the other side with an id up to that of the swap.     *)
OppositeSwaps(n) ==
  {m \in Placed \ complete :
     orders[m].pays # orders[n].pays /\ IdOf(m) <= IdOf(n)}

Sorted(S) ==
  {q \in SetToSeqs(S) : \A i, j \in DOMAIN q : i < j => ~Better(q[j], q[i])}

OtherToken(t) == CHOOSE u \in Tokens : u # t
OppositeSide(n) == OtherToken(orders[n].pays)

(* The cached book, or one made from the table in any order of equals.     *)
OppositeBooks(n) ==
  IF run.books[OppositeSide(n)] # NoBook THEN {run.books[OppositeSide(n)]}
  ELSE {[i \in DOMAIN q |-> [swap |-> q[i], object |-> "row"]] :
          q \in Sorted(OppositeSwaps(n))}

(* `assert(len(opposite_order_book) == opposite_swaps.count())`            *)
SizeAgrees(n, book) == Len(book) = Cardinality(OppositeSwaps(n))

(* The swaps are taken in the order of their stamps.                       *)
Oldest(n) ==
  /\ run.at = "swaps"
  /\ n \in run.todo
  /\ \A m \in run.todo : n <= m

TakeSwap(n) ==
  /\ Oldest(n)
  /\ \E book \in OppositeBooks(n) :
       /\ SizeAgrees(n, book)
       /\ run' = [run EXCEPT !.at = "matching", !.swap = n,
                             !.todo = @ \ {n}, !.book = book, !.next = 1,
                             !.opposite_orders_consumed = 0,
                             !.matched_successfully = FALSE]
  /\ UNCHANGED << table, result, told, refused, unseen >>

(* The transaction is rolled back.                                         *)
Restore ==
  /\ filled' = run.saved.filled
  /\ complete' = run.saved.complete
  /\ matches' = run.saved.matches
  /\ run' = NoRun

(* An AssertionError leaves the transaction, and notification_on_error     *)
(* swallows it.                                                            *)
Rollback ==
  /\ Restore
  /\ UNCHANGED << table, told, refused, unseen >>

FailSizeAssertion(n) ==
  /\ Oldest(n)
  /\ \E book \in OppositeBooks(n) : ~SizeAgrees(n, book)
  /\ Rollback

Swap == run.swap
SwapObject == [swap |-> Swap, object |-> "swap"]
Opposite == run.book[run.next].swap

(* The loop over the book goes on while there is an order that crosses.    *)
Looking ==
  /\ run.at = "matching"
  /\ SwapObject \notin run.fulfilled
  /\ run.next <= Len(run.book)
  /\ Crosses(orders[Swap], orders[Opposite])

SkipFulfilled ==
  /\ Looking
  /\ run.book[run.next] \in run.fulfilled
  /\ run' = [run EXCEPT !.next = @ + 1, !.opposite_orders_consumed = @ + 1]
  /\ UNCHANGED << table, result, told, refused, unseen >>

(* What match_limit_to_limit would make of the two.                        *)
NewFilled ==
  LET traded == Traded(orders[Swap], filled[Swap],
                       orders[Opposite], filled[Opposite])
  IN [filled EXCEPT ![Swap] = Filled(@, traded.left, traded.right),
                    ![Opposite] = Filled(@, traded.right, traded.left)]

Pair == {Swap, Opposite}
Matching == Looking /\ run.book[run.next] \notin run.fulfilled
Accepted == \A n \in Pair : Accepts(orders[n], NewFilled[n])
Asserted == \A n \in Pair : AssertionsHold(orders[n], NewFilled[n])

(* A faulty variant: only the younger order is closed.                     *)
DoneYounger == {n \in {Swap} : Fulfilled(orders[n], NewFilled[n])}

(* The orders that have nothing left to trade are closed as complete.      *)
Done == {n \in Pair : Fulfilled(orders[n], NewFilled[n])}

RefuseMatch ==
  /\ Matching
  /\ ~Accepted
  /\ run' = [run EXCEPT !.next = @ + 1, !.matched_successfully = FALSE]
  /\ refused' = refused \cup {<< Swap, Opposite >>}
  /\ UNCHANGED << table, result, told, unseen >>

MatchOrders ==
  /\ Matching
  /\ Accepted
  /\ Asserted
  /\ filled' = NewFilled
  /\ complete' = complete \cup Done
  /\ matches' = matches \cup {<< Swap, Opposite >>}
  /\ run' = [run EXCEPT
       !.next = @ + 1,
       !.matched_successfully = TRUE,
       !.opposite_orders_consumed = IF Opposite \in Done THEN @ + 1 ELSE @,
       !.fulfilled = @ \cup {object \in {SwapObject, run.book[run.next]} :
                               object.swap \in Done}]
  /\ UNCHANGED << table, told, refused, unseen >>

FailMatchAssertion ==
  /\ Matching
  /\ Accepted
  /\ ~Asserted
  /\ Rollback

(* A faulty variant: an open swap does not join the cached book.           *)
NotAddedTo(book, object) == book

(* bisect_right: behind the orders that are as good.                       *)
AddTo(book, object) ==
  LET ahead == Cardinality({i \in DOMAIN book :
                              ~Better(object.swap, book[i].swap)})
  IN InsertAt(book, ahead + 1, object)

(* `swap.time + datetime.timedelta(milliseconds=1)`                        *)
StampAfter(n) == Millisecond[n]

(* After the loop the head of the book is cut off, as many entries as were *)
(* consumed, and a swap that is still open joins the book of its own side  *)
(* if that is cached.  The notification names the order last looked at.    *)
EndSwap ==
  LET own == orders[Swap].pays
      rest == SubSeq(run.book, run.opposite_orders_consumed + 1, Len(run.book))
      joins == SwapObject \notin run.fulfilled /\ run.books[own] # NoBook
      last_seen == IF SwapObject \notin run.fulfilled /\ run.next <= Len(run.book)
                     THEN run.next ELSE run.next - 1
  IN
  /\ run.at = "matching"
  /\ ~Looking
  /\ run' = [run EXCEPT
       !.at = "swaps",
       !.swap = 0,
       !.books[OppositeSide(Swap)] = rest,
       !.books[own] = IF joins THEN AddTo(@, SwapObject) ELSE @,
       !.book = << >>,
       !.next = 1,
       !.last = StampAfter(Swap),
       !.past = Swap + 1,
       !.notification_queue =
          IF run.matched_successfully
            THEN @ \cup {<< Swap, run.book[last_seen].swap >>} ELSE @]
  /\ UNCHANGED << table, result, told, refused, unseen >>

CommitRun ==
  /\ run.at = "swaps"
  /\ run.todo = {}
  /\ last_unprocessed_swap_time' = run.last
  /\ notified' = notified \cup run.notification_queue
  /\ run' = NoRun
  /\ UNCHANGED << table, result, refused, unseen >>

(* The worker stops in the middle of a run.                                *)
CrashRun ==
  /\ run.at # "idle"
  /\ Rollback

(* What the run in progress began with.                                    *)
Begun == {n \in Placed \ run.saved.complete : n >= last_unprocessed_swap_time}

(* The stamp goes to the cache inside the atomic block (process_swaps.py:  *)
(* 218); the worker stops, or the commit fails, behind that.               *)
CrashAtCommit ==
  /\ run.at = "swaps"
  /\ run.todo = {}
  /\ last_unprocessed_swap_time' = run.last
  /\ lost' = lost \cup Begun
  /\ Restore
  /\ UNCHANGED << table, notified, refused, skipped >>

RunStep ==
  \/ StartRun
  \/ \E n \in Swaps : TakeSwap(n) \/ FailSizeAssertion(n)
  \/ SkipFulfilled \/ RefuseMatch \/ MatchOrders \/ FailMatchAssertion
  \/ EndSwap \/ CommitRun \/ CrashRun \/ CrashAtCommit

Next == RunStep \/ SkipRun \/ \E n \in Swaps : CreateSwap(n)

Spec == Init /\ [][Next]_vars

-----------------------------------------------------------------------------
(* Properties.                                                             *)

(* Type invariant; stamps do not run ahead of the swaps.                   *)
TypeOK ==
  /\ orders \in [Placed -> Order(Tokens, Amounts)]
  /\ filled \in [Swaps -> [out : Nat, in : Nat]]
  /\ complete \subseteq Placed
  /\ matches \subseteq Swaps \X Swaps
  /\ notified \subseteq Swaps \X Swaps
  /\ last_unprocessed_swap_time \in 1 .. NumSwaps + 1
  /\ skipped \subseteq Placed /\ lost \subseteq Placed
  /\ run.at \in {"idle", "swaps", "matching"}

(* However often an order is matched, as the younger or as the older of    *)
(* the two, and whatever is rolled back: it never gives more than its      *)
(* amount, and a buy order never gets more than it asked for.              *)
WithinLimits ==
  \A n \in Placed : Within(orders[n], filled[n])

(* A row is complete exactly when its matches have filled it, although two *)
(* objects of the same row carry the flag during a run (change_state,      *)
(* process_swaps.py:104 and :183).                                         *)
CompleteAgrees ==
  \A n \in Placed : n \in complete <=> Fulfilled(orders[n], filled[n])

(* The inductive invariant behind TypeOK, WithinLimits and CompleteAgrees: *)
(* during a run they hold of the table and of what a rollback restores,    *)
(* and every order book holds orders of one side only, so that no swap is  *)
(* matched with itself.                                                    *)
Fill == [out : Nat, in : Nat]
Objects == [swap : Swaps, object : {"swap", "row"}]
Entries(t) == {o \in Objects : o.swap \in Placed /\ orders[o.swap].pays = t}

Results == [filled : [Swaps -> Fill], complete : SUBSET Swaps,
            matches : SUBSET (Swaps \X Swaps)]
Runs == [at : {"idle", "swaps", "matching"},
         todo : SUBSET Swaps,
         swap : Swaps \cup {0},
         books : [Tokens -> {NoBook} \cup Seq(Objects)],
         book : Seq(Objects),
         next : Nat \ {0},
         opposite_orders_consumed : Nat,
         matched_successfully : BOOLEAN,
         notification_queue : SUBSET (Swaps \X Swaps),
         fulfilled : SUBSET Objects,
         last : 0 .. NumSwaps + 1,
         past : 0 .. NumSwaps + 1,
         saved : {NoBook} \cup Results]

Sound(f, c) ==
  /\ \A n \in Placed : /\ Within(orders[n], f[n])
                       /\ n \in c <=> Fulfilled(orders[n], f[n])
  /\ \A n \in Swaps \ Placed : f[n] = Nothing
  /\ c \subseteq Placed

RunSound ==
  /\ run \in Runs
  /\ run.at = "idle" => run = NoRun
  /\ run.at # "idle" =>
       /\ run.last # 0
       /\ run.todo \subseteq Placed
       /\ run.saved \in Results
       /\ Sound(run.saved.filled, run.saved.complete)
       /\ \A t \in Tokens :
            run.books[t] # NoBook => run.books[t] \in Seq(Entries(t))
  /\ run.at = "matching" =>
       /\ run.swap \in Placed
       /\ run.book \in Seq(Entries(OppositeSide(run.swap)))
       /\ run.next <= Len(run.book) + 1
       /\ run.matched_successfully => run.next >= 2

FillInv ==
  /\ TypeOK
  /\ ids \in Seq(Swaps)
  /\ Sound(filled, complete)
  /\ RunSound

(* The cached order book has as many entries as the table has open orders  *)
(* for the swap (the assertion of process_swaps.py:140).                   *)
SizeAssertion ==
  \A n \in Placed :
    Oldest(n) => \A book \in OppositeBooks(n) : SizeAgrees(n, book)

InStampOrder == \A i \in DOMAIN ids : ids[i] = i

(* What was refused to orders that no run has committed yet.               *)
RefusedLately == {p \in refused : p[1] >= last_unprocessed_swap_time}

(* The assertion holds as long as all orders have appeared in the order of *)
(* their stamps and no match of the run was refused: consuming, closing    *)
(* and inserting orders keeps the cached books in step with the table.     *)
(* (After a refusal the islice of process_swaps.py:202 cuts off an order   *)
(* that is still open in place of one that was consumed.)                  *)
BooksAgree == InStampOrder /\ RefusedLately = {} => SizeAssertion

(* The assertions of match_limit_to_limit hold whenever the checks before  *)
(* them let a match through (limit_to_limit.py:121-148), if neither order  *)
(* is for less than what the checks forgive.                               *)
MatchAssertion ==
  Matching /\ Accepted /\ (\A n \in Pair : orders[n].amount >= Slack)
    => Asserted

(* No two orders of the two sides cross: an open one with a stamp before   *)
(* `last` that was not missed, and an older one that is open.              *)
NoneCross(closed, last) ==
  \A m, n \in Placed \ closed :
    m < n /\ n < last /\ orders[m].pays # orders[n].pays
      /\ n \notin skipped \cup lost
      => ~Crosses(orders[n], orders[m])

(* A swap that was skipped shares a millisecond with an older one.         *)
SkippedInAMillisecond ==
  \A n \in skipped : \E m \in Placed : m < n /\ n < StampAfter(m)

(* After a run no two open orders with a stamp the runs are past cross, if *)
(* orders appear in the order of their stamps and no match was ever        *)
(* refused for its rounding, save where the younger of the two was missed: *)
(* it appeared within the millisecond of an order already taken, or the    *)
(* run that took it was lost as it committed.  A new order is matched with *)
(* the best of the other side until one of the two is filled, over any     *)
(* number of runs, those that were missed among the others.                *)
NoCrossedBook ==
  run.at = "idle" /\ InStampOrder =>
    /\ refused = {} => NoneCross(complete, last_unprocessed_swap_time)
    /\ SkippedInAMillisecond

(* The inductive invariant behind BooksAgree and NoCrossedBook, while      *)
(* orders appear in the order of their stamps.  A run has still to take    *)
(* what is open behind the last swap it took, its books hold older orders; *)
(* and if nothing was refused, a book lists the open orders of its side    *)
(* once, best first, behind the entries consumed so far.                   *)
Before(last) == {o \in Objects : o.swap < last}
OpenBefore(t, last) == {m \in Placed \ complete : orders[m].pays = t /\ m < last}

ListsFrom(k, book, S) ==
  /\ S = {book[i].swap : i \in k .. Len(book)}
  /\ \A i, j \in k .. Len(book) :
       i < j => /\ book[i].swap # book[j].swap
                /\ ~Better(book[j].swap, book[i].swap)

(* The first stamp of all, or one a swap has led to.                       *)
Stamped(last) == last = 1 \/ \E m \in Placed : last = StampAfter(m)

RunInStep ==
  /\ run.past \in last_unprocessed_swap_time .. Len(ids) + 1
  /\ Stamped(run.last)
  /\ run.todo = {m \in Placed \ complete : m >= run.past /\ m # Swap}
  /\ \A o \in run.fulfilled : o.swap \in complete
  /\ \A t \in Tokens :
       run.books[t] # NoBook => run.books[t] \in Seq(Before(run.past))
  /\ run.at = "swaps" => Swap = 0
  /\ run.at = "matching" =>
       /\ run.past <= Swap
       /\ \A m \in run.todo : Swap < m
       /\ Swap \in complete <=> SwapObject \in run.fulfilled
       /\ run.book \in Seq(Before(run.past))

Behind == run.opposite_orders_consumed + 1

BooksListed ==
  /\ \A t \in Tokens :
       run.books[t] # NoBook /\ (run.at = "matching" => t = orders[Swap].pays)
         => ListsFrom(1, run.books[t], OpenBefore(t, run.past))
  /\ run.at = "matching" =>
       /\ run.next # Behind => run.next = Behind + 1 /\ Swap \in complete
       /\ ListsFrom(Behind, run.book, OpenBefore(OppositeSide(Swap), run.past))

BooksInv ==
  InStampOrder =>
    /\ SkippedInAMillisecond
    /\ Stamped(last_unprocessed_swap_time)
    /\ run.at # "idle" => RunInStep
    /\ run.at # "idle" /\ RefusedLately = {} => BooksListed
    /\ run.at = "idle" /\ refused = {}
         => NoneCross(complete, last_unprocessed_swap_time)
    /\ run.at # "idle" /\ refused = {}
         => /\ NoneCross(run.saved.complete, last_unprocessed_swap_time)
            /\ NoneCross(complete, run.past)

SwapInv == FillInv /\ BooksInv

(* After a run both wallets of every match were told of it                 *)
(* (synchronizer/docs.py:109, :120).                                       *)
EveryMatchIsNotified ==
  run.at = "idle" => matches \subseteq notified
=============================================================================
