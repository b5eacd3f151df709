---------------------------- MODULE BookBuilder ----------------------------
(***************************************************************************)
(* From a frame to the books: itch::dispatch (include/itch/parser.hpp),    *)
(* pipeline::BookBuilder and dispatch_to_book                              *)
(* (include/pipeline/dispatch_to_book.hpp) and pipeline::BookTable         *)
(* (include/pipeline/book_table.hpp), instantiated with OrderBook (the     *)
(* --map binaries).                                                        *)
(*                                                                         *)
(* A frame is [type, good, m]: its type byte, whether its length is the    *)
(* wire size of that type, and its fields.  Bytes, timestamps, match       *)
(* numbers and stock names reach no state modelled here.                   *)
(***************************************************************************)
EXTENDS BookOps, SequencesExt

\* The types itch::wire_size knows, and a type it does not.
Decoded   == {"A", "F", "E", "C", "X", "D", "U"}
FrameType == Decoded \cup {"S"}

\* Every field zero, as in a value-initialised AddOrder; a zero byte is not
\* 'B', so the books take the side for a sell.
ZeroFields == [locate |-> 0, ref |-> 0, next |-> 0, side |-> "Sell", shares |-> 0, price |-> 0]

\* A BookBuilder: the table (only constructed slots are in its domain), the
\* per-type counts and the count of refused mutators.
NewBuilder == [books |-> EmptyMap, counts |-> [t \in FrameType |-> 0], unknown_refs |-> 0]

get_or_create(h, locate) == IF locate \in DOMAIN h.books THEN h.books[locate] ELSE EmptyBook

bump(h, t) == [h EXCEPT !.counts[t] = @ + 1]

\* One on_* callback: count it, keep the book that was found or built, with
\* the mutation r of it.
apply(h, t, locate, r) ==
  [bump(h, t) EXCEPT !.books = Put(@, locate, r.book),
                     !.unknown_refs = IF r.ok THEN @ ELSE @ + 1]

\* execute and cancel.
Reduced(h, m) == reduce(get_or_create(h, m.locate), m.ref, m.shares)

on_add(h, m) ==
  apply(h, "A", m.locate, add(get_or_create(h, m.locate), m.ref, m.side, m.shares, m.price))
on_execute(h, m)       == apply(h, "E", m.locate, Reduced(h, m))
on_execute_price(h, m) == apply(h, "C", m.locate, Reduced(h, m))
on_cancel(h, m)        == apply(h, "X", m.locate, Reduced(h, m))
on_delete(h, m) == apply(h, "D", m.locate, remove(get_or_create(h, m.locate), m.ref))
on_replace(h, m) ==
  apply(h, "U", m.locate,
        replace(get_or_create(h, m.locate), m.ref, m.next, m.shares, m.price))
on_other(h, t) == bump(h, t)

\* Mutant: 'C' has no case and falls to the default.
dispatch_to_book_no_C(env, h) ==
  CASE env.type \in {"A", "F"} -> on_add(h, env.m)
    [] env.type = "E" -> on_execute(h, env.m)
    [] env.type = "X" -> on_cancel(h, env.m)
    [] env.type = "D" -> on_delete(h, env.m)
    [] env.type = "U" -> on_replace(h, env.m)
    [] OTHER -> on_other(h, env.type)

\* The switch on Envelope::type.
dispatch_to_book(env, h) ==
  CASE env.type \in {"A", "F"} -> on_add(h, env.m)
    [] env.type = "E" -> on_execute(h, env.m)
    [] env.type = "C" -> on_execute_price(h, env.m)
    [] env.type = "X" -> on_cancel(h, env.m)
    [] env.type = "D" -> on_delete(h, env.m)
    [] env.type = "U" -> on_replace(h, env.m)
    [] OTHER -> on_other(h, env.type)

\* itch::dispatch into a BookBuilder: the single-threaded path.
intact(f) == f.type \in Decoded /\ f.good
dispatch(f, h) ==
  IF ~intact(f) THEN on_other(h, f.type)
  ELSE CASE f.type \in {"A", "F"} -> on_add(h, f.m)
         [] f.type = "E" -> on_execute(h, f.m)
         [] f.type = "C" -> on_execute_price(h, f.m)
         [] f.type = "X" -> on_cancel(h, f.m)
         [] f.type = "D" -> on_delete(h, f.m)
         [] f.type = "U" -> on_replace(h, f.m)

\* itch::dispatch into a QueueProducer: the envelope its on_* callbacks push.
\* 'F' becomes 'A'; a skipped or corrupt frame keeps its type byte over a
\* zeroed payload.
envelope(f) ==
  IF intact(f) THEN [type |-> IF f.type = "F" THEN "A" ELSE f.type, m |-> f.m]
  ELSE [type |-> f.type, m |-> ZeroFields]

\* What the frames s, one after the other, make of a BookBuilder, and of a new one.
DispatchAll(s, h) == FoldLeft(LAMBDA g, f : dispatch(f, g), h, s)
Sequential(s)     == DispatchAll(s, NewBuilder)

=============================================================================
