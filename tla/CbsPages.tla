------------------------------ MODULE CbsPages ------------------------------
(***************************************************************************)
(* What the page caches of cbs_req/ have in common: requests are numbers,  *)
(* a block of the disk is BLOCK_PAGE_NUM of them, and each stands for 4K.  *)
(***************************************************************************)
EXTENDS Integers

CONSTANTS
    BlockPageNum,   \* BLOCK_PAGE_NUM
    DiskBlockNum,   \* DISK_BLOCK_NUM
    Content,        \* 4K buffers
    None,           \* no page, or what a page held before it was first written
    Torn            \* a page whose copy was interrupted

ASSUME LayoutAssumption ==
    /\ BlockPageNum \in Nat \ {0} /\ DiskBlockNum \in Nat \ {0}
    /\ None \notin Content /\ Torn \notin Content /\ None # Torn

Block == 0 .. DiskBlockNum - 1
Req == 0 .. BlockPageNum * DiskBlockNum - 1
BlockOf(r) == r \div BlockPageNum       \* req_id >> 10
PageOf(r) == r % BlockPageNum           \* req_id & 0x3ff
=============================================================================
