------------------------------- MODULE Ledger -------------------------------
(***************************************************************************)
(* The arithmetic of the holder registry (src/src/wasm_keeper.erl) and of  *)
(* the page-table and arena geometry it charges for                        *)
(* (src/src/wasm_memory.erl): how many pages and chunks a memory of a      *)
(* given size owns.  Pages are 64 KiB, slots 4 KiB.                        *)
(***************************************************************************)
EXTENDS Integers

\* Sixteen 64-bit entries per image page, and two more after them.
table_pages(i) == IF i = 0 THEN 0 ELSE ((i * 16 + 2) * 8 + 65535) \div 65536

\* Chunks of c pages that a memory of l pages consists of.
chunk_count(l, c) == (l + c - 1) \div c

\* Pages of the growth chunks of a memory of l pages past an image of i.
growth_pages(l, i, c) ==
    chunk_count(IF l > i THEN l - i ELSE 0, c) * c

\* Slots in the first k arena chunks: 16, 32, 64, 128, then 256 each.
arena_slots(k) ==
    CASE k = 0 -> 0 [] k = 1 -> 16 [] k = 2 -> 48 [] k = 3 -> 112
      [] OTHER -> 240 + 256 * (k - 4)

\* Pages that arena chunks have + 1 .. target cost (sixteen slots a page).
arena_cost(have, target) == (arena_slots(target) - arena_slots(have)) \div 16
=============================================================================
