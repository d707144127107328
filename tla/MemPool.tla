------------------------------ MODULE MemPool ------------------------------
(***************************************************************************)
(* Fixed-size memory pool calls: kernel/mempfix.c.  (ref_mpf only reads.)  *)
(*                                                                         *)
(* A block is its index.  p_mpfmb says of each block that has been used    *)
(* that it is allocated, or which block follows it in the free list; that  *)
(* of block i is p_mpfmb[i + 1] here.                                      *)
(***************************************************************************)
EXTENDS KernelState

new_mpfcb(blkcnt) ==
    [blkcnt |-> blkcnt, p_mpfmb |-> [i \in 1 .. blkcnt |-> 0],
     fblkcnt |-> blkcnt, unused |-> 0, freelist |-> INDEX_NULL]

(* The block get_mpf_block takes.                                          *)
free_block(p) == IF p.freelist # INDEX_NULL THEN p.freelist ELSE p.unused

(* Faulty variant: the block stays in the free list.                       *)
get_mpf_block_keeps_list(s, w) ==
    LET p == s.mpf[w]
        i == free_block(p)
    IN  [s EXCEPT !.out = [from |-> w, what |-> [blk |-> i]],
                  !.mpf[w] = [p EXCEPT !.unused  = IF p.freelist = INDEX_NULL
                                                   THEN @ + 1 ELSE @,
                                       !.fblkcnt = @ - 1,
                                       !.p_mpfmb[i + 1] = INDEX_ALLOC]]

get_mpf_block(s, w) ==
    LET p == s.mpf[w]
        i == free_block(p)
        q == IF p.freelist # INDEX_NULL
             THEN [p EXCEPT !.freelist = p.p_mpfmb[i + 1]]
             ELSE [p EXCEPT !.unused = @ + 1]
    IN  [s EXCEPT !.out = [from |-> w, what |-> [blk |-> i]],
                  !.mpf[w] = [q EXCEPT !.fblkcnt = @ - 1,
                                       !.p_mpfmb[i + 1] = INDEX_ALLOC]]

(* Faulty variant: the new pool takes over the number of used blocks.      *)
acre_mpf_keeps_unused(mpfatr, blkcnt) ==
    LET w == Head(free_cb["MPF"])
    IN  /\ CanCreate("acre_mpf", "MPF")
        /\ blkcnt # 0
        /\ Become([create_wobj("MPF", mpfatr) EXCEPT
                     !.mpf[w] = [new_mpfcb(blkcnt) EXCEPT !.unused = mpf[w].unused]])
        /\ UnchangedContext

acre_mpf(mpfatr, blkcnt) ==
    LET w == Head(free_cb["MPF"])
    IN  /\ CanCreate("acre_mpf", "MPF")
        /\ blkcnt # 0
        /\ Become([create_wobj("MPF", mpfatr) EXCEPT !.mpf[w] = new_mpfcb(blkcnt)])
        /\ UnchangedContext

del_mpf(w) ==
    /\ CanDelete("del_mpf", "MPF", w)
    /\ Become(dispatch(delete_wobj("MPF", w)))
    /\ UnchangedContext

TakeBlock(w) ==
    /\ mpf[w].fblkcnt > 0
    /\ Become(get_mpf_block(Cur, w))

get_mpf(w) ==
    /\ MayWait("get_mpf", w)
    /\ \/ TakeBlock(w)
       \/ /\ mpf[w].fblkcnt = 0
          /\ Become(dispatch(wobj_make_wait(Cur, TS_WAITING_MPF, w)))
    /\ UnchangedContext

pget_mpf(w) ==
    /\ TskCtxUnl("pget_mpf")
    /\ ObjectExists(w)
    /\ TakeBlock(w)
    /\ UnchangedContext

tget_mpf(w) ==
    /\ MayWait("tget_mpf", w)
    /\ \/ TakeBlock(w)
       \/ /\ mpf[w].fblkcnt = 0
          /\ Become(dispatch(
                      wobj_make_wait_tmout(Cur, TS_WAITING_MPF, w, "finite")))
    /\ UnchangedContext

(* Faulty variant: accepts a block number that ini_mpf has taken back.     *)
is_allocated_stale(p, blk) == p.p_mpfmb[blk + 1] = INDEX_ALLOC

(* What rel_mpf accepts as the start of an allocated block.                *)
is_allocated(p, blk) == blk < p.unused /\ p.p_mpfmb[blk + 1] = INDEX_ALLOC

rel_mpf(w, blk) ==
    LET q     == wobj[w].wait_queue
        t     == Head(q)
        freed == [Cur EXCEPT !.mpf[w].fblkcnt = @ + 1,
                             !.mpf[w].p_mpfmb[blk + 1] = mpf[w].freelist,
                             !.mpf[w].freelist = blk]
    IN  /\ TskCtxUnl("rel_mpf")
        /\ ObjectExists(w)
        /\ blk < mpf[w].blkcnt
        /\ is_allocated(mpf[w], blk)
        /\ Become(IF q = <<>> THEN freed
                  ELSE dispatch(wait_complete(
                          [Cur EXCEPT !.wobj[w].wait_queue = Tail(q),
                                      !.tcb[t].wobjdata = [blk |-> blk]], t)))
        /\ UnchangedContext

ini_mpf(w) ==
    LET drained == init_wait_queue(Cur, w, "wait_queue")
    IN  /\ TskCtxUnl("ini_mpf")
        /\ ObjectExists(w)
        /\ Become(dispatch([drained EXCEPT !.mpf[w].fblkcnt  = mpf[w].blkcnt,
                                           !.mpf[w].unused   = 0,
                                           !.mpf[w].freelist = INDEX_NULL]))
        /\ UnchangedContext

=============================================================================
