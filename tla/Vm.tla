--------------------------------- MODULE Vm ---------------------------------
(***************************************************************************)
(* Address spaces: the page tables of pmm.c, the regions of vmm.c, the     *)
(* memory of a process from do_fork, do_execve and load_icode to do_exit   *)
(* and do_wait in proc.c, and the swapping of swap.c and swap_fifo.c.      *)
(*                                                                         *)
(* A virtual page la has its entry in page table la \div PTSIZE, which has *)
(* its entry in the level-0 directory la \div PDSIZE, which has its entry  *)
(* in the page directory of the process.  All of these are pages of the    *)
(* same physical memory as the user's pages and the kernel stacks.  The    *)
(* allocator is used by what FreePages promises: first fit.                *)
(*                                                                         *)
(* The kernel is not preempted and nobody sleeps while he holds a lock     *)
(* that these calls take, so that each call is one step.                   *)
(*                                                                         *)
(* Swapping only works while check_mm_struct is set, which it is during    *)
(* check_swap at boot; from then on an alloc_page that finds no free page  *)
(* stops the kernel, and the model stops short of it.  The pages of the    *)
(* kernel heap are not counted.                                            *)
(***************************************************************************)
EXTENDS Integers, Sequences, FiniteSets

CONSTANTS
  Users,     \* processes besides idle and init
  Check,     \* owner of check_mm_struct
  NP,        \* physical pages
  PTSIZE,    \* pages mapped by a page table
  PDSIZE,    \* pages mapped by a level-0 directory
  StackFrom, StackTo, \* the user stack: virtual pages StackFrom .. StackTo-1
  LoadStack, \* how many of them load_icode fills at once
  Programs,  \* executable files
  Values,    \* contents of a page
  CheckRp,   \* CHECK_VALID_PHY_PAGE_NUM
  CheckVp,   \* CHECK_VALID_VIR_PAGE_NUM
  MaxCalls,  \* bound on the calls that take memory
  None

Pages == 0 .. NP - 1
Vas == 0 .. StackTo - 1 \* where user pages can be
Procs == Users \cup {Check}
Boot == -1 \* boot_pgdir

\* check_swap has one page table; load_icode asserts that the stack takes four pages.
ASSUME VmAssumption ==
  /\ NP \in Nat /\ CheckRp \in Nat \ {0} /\ CheckRp + 2 <= NP
  /\ PTSIZE \in Nat \ {0} /\ PDSIZE \in Nat \ {0} /\ PDSIZE % PTSIZE = 0
  /\ CheckVp \in Nat \ {0} /\ CheckVp <= PTSIZE
  /\ StackFrom \in Nat /\ StackTo \in Nat /\ LoadStack \in 1 .. StackTo - StackFrom
  /\ 0 \in Values
  /\ Check \notin Users /\ MaxCalls \in Nat
  /\ None \notin Int

\* The pages of a sequence of regions or segments.
PagesOf(vmas) == UNION {vmas[i].start .. vmas[i].end - 1 : i \in DOMAIN vmas}

\* A segment that begins in an earlier region is refused by mm_map.
Refused(prog, i) ==
  \/ prog.segs[i].bad
  \/ \E j \in 1 .. i - 1 :
       prog.segs[j].start <= prog.segs[i].start /\ prog.segs[i].start < prog.segs[j].end

\* Executable files: segments below the stack.  One that overlaps an earlier one
\* and is not refused would stop the kernel in insert_vma_struct.  The pages in
\* one directory lie in one table, as those of all user programs but testbss do:
\* see exit_range.
ASSUME ProgramsAssumption ==
  \A prog \in Programs :
    /\ prog.magic \in BOOLEAN
    /\ prog.segs \in Seq({prog.segs[i] : i \in DOMAIN prog.segs})
    /\ \A i \in DOMAIN prog.segs :
         LET seg == prog.segs[i] IN
         /\ seg.start \in Nat /\ seg.end \in seg.start + 1 .. StackFrom
         /\ seg.w \in BOOLEAN /\ seg.bad \in BOOLEAN
         /\ seg.image \in [seg.start .. seg.end - 1 -> Values]
    /\ \A i, j \in DOMAIN prog.segs : i < j /\ ~Refused(prog, j) =>
         \/ prog.segs[i].end <= prog.segs[j].start
         \/ prog.segs[j].end <= prog.segs[i].start
    /\ \A a, b \in PagesOf(prog.segs) \cup (StackFrom .. StackTo - 1) :
         a \div PDSIZE = b \div PDSIZE => a \div PTSIZE = b \div PTSIZE

VARIABLES
  state,  \* of each user process: "none", "live" or "zombie"
  m,      \* the memory and who uses it for what
  calls   \* calls of kernel_thread, do_fork and do_execve so far

vmvars == <<state, m, calls>>

Least(S) == CHOOSE x \in S : \A y \in S : x <= y
Put(f, x, y) == [z \in DOMAIN f \cup {x} |-> IF z = x THEN y ELSE f[z]]
Without(f, S) == [z \in DOMAIN f \ S |-> f[z]]
Empty == [z \in {} |-> 0]

\* A page table entry: a frame, or a place on the swap device.
Valid(x) == [v |-> TRUE, at |-> x]
SwapEntry(la) == [v |-> FALSE, at |-> la + 1]

\* mm_create and setup_pgdir; no mm_struct.
NewMm(x) == [pgdir |-> x, vmas |-> <<>>, pde1 |-> Empty, pde0 |-> Empty, pte |-> Empty]
NoMm == NewMm(None)

Loaded == StackTo - LoadStack .. StackTo - 1
CheckVma == [start |-> 0, end |-> CheckVp, w |-> TRUE]

\* check_swap has made check_mm_struct and its tables, and has left CheckRp
\* frames in the free list.
Init ==
  /\ state = [p \in Users |-> "none"]
  /\ calls = 0
  /\ m = [free   |-> 2 .. CheckRp + 1,
          ref    |-> [x \in Pages |-> IF x < 2 THEN 1 ELSE 0],
          content |-> [x \in Pages |-> 0],
          mm     |-> [p \in Procs |->
                        IF p = Check
                        THEN [NewMm(Boot) EXCEPT !.vmas = <<CheckVma>>,
                                !.pde1 = Put(Empty, 0, 0), !.pde0 = Put(Empty, 0, 1)]
                        ELSE NoMm],
          kstack |-> [p \in Users |-> None],
          cr3    |-> [p \in Users |-> Boot],
          check  |-> TRUE, \* check_mm_struct # NULL
          pra    |-> <<>>, \* pra_list_head: the frames and their pra_vaddr
          swap   |-> Empty]

-----------------------------------------------------------------------------
(***************************************************************************)
(* Frames.  A freed page keeps its contents, and whoever gets it next      *)
(* finds them: the model forgets them and lets him find anything.          *)
(***************************************************************************)
free_pages(mem, S) ==
  [mem EXCEPT !.free = @ \cup S,
              !.ref = [x \in Pages |-> IF x \in S THEN 0 ELSE @[x]],
              !.content = [x \in Pages |-> IF x \in S THEN 0 ELSE @[x]]]
free_page(mem, x) == free_pages(mem, {x})

\* The first page that came in is written to the place of its address on the
\* device, and its entry says so.
swap_out(mem) ==
  LET out == Head(mem.pra)
  IN  [free_page(mem, out.page) EXCEPT
         !.pra = Tail(@),
         !.swap = Put(@, SwapEntry(out.vaddr).at, mem.content[out.page]),
         !.mm[Check].pte[out.vaddr] = SwapEntry(out.vaddr)]

\* alloc_page: the memory with a page to give, that page, and the rest.
Ready(mem) == IF mem.free = {} THEN swap_out(mem) ELSE mem
NextPage(mem) == Least(Ready(mem).free)
alloc_page(mem) == [Ready(mem) EXCEPT !.free = @ \ {NextPage(mem)}]

swap_map_swappable(mem, x, la) ==
  [mem EXCEPT !.pra = Append(@, [page |-> x, vaddr |-> la])]

-----------------------------------------------------------------------------
\* get_pte with create: the tables above the entry of la exist.
get_pte(mem, p, la) ==
  LET pd == la \div PDSIZE
      pt == la \div PTSIZE
      x1 == NextPage(mem)
      m1 == IF pd \in DOMAIN mem.mm[p].pde1 THEN mem
            ELSE [alloc_page(mem) EXCEPT !.ref[x1] = 1, !.mm[p].pde1 = Put(@, pd, x1)]
      x0 == NextPage(m1)
  IN  IF pt \in DOMAIN m1.mm[p].pde0 THEN m1
      ELSE [alloc_page(m1) EXCEPT !.ref[x0] = 1, !.mm[p].pde0 = Put(@, pt, x0)]

IsValid(mem, p, la) == la \in DOMAIN mem.mm[p].pte /\ mem.mm[p].pte[la].v

\* For each page of S.  An entry of the swap device is left as it is.
page_remove_pte(mem, p, S) ==
  LET valid   == {la \in S : IsValid(mem, p, la)}
      uses(x) == {la \in valid : mem.mm[p].pte[la].at = x}
      left    == [x \in Pages |-> mem.ref[x] - Cardinality(uses(x))]
      unused  == {x \in Pages : uses(x) # {} /\ left[x] = 0}
  IN  [free_pages([mem EXCEPT !.ref = left], unused) EXCEPT !.mm[p].pte = Without(@, valid)]

page_insert(mem, p, x, la) ==
  LET m1 == [get_pte(mem, p, la) EXCEPT !.ref[x] = @ + 1]
      m2 == IF ~IsValid(m1, p, la) THEN m1
            ELSE IF m1.mm[p].pte[la].at = x THEN [m1 EXCEPT !.ref[x] = @ - 1]
            ELSE page_remove_pte(m1, p, {la})
  IN  [m2 EXCEPT !.mm[p].pte = Put(@, la, Valid(x))]

\* ... which the caller then fills with c.
pgdir_alloc_page(mem, p, la, c) ==
  LET x == NextPage(mem)
      m1 == page_insert([alloc_page(mem) EXCEPT !.content[x] = c], p, x, la)
  IN  IF mem.check THEN swap_map_swappable(m1, x, la) ELSE m1

-----------------------------------------------------------------------------
(***************************************************************************)
(* Operators named M_... are deliberate bugs: each is the mutated form of  *)
(* the definition that follows it and occurs nowhere in the specification. *)
(***************************************************************************)
\* unmap_range for all regions.
unmap(mem, p) == page_remove_pte(mem, p, PagesOf(mem.mm[p].vmas))

DirOf(t) == (t * PTSIZE) \div PDSIZE
TablesOf(vma) == vma.start \div PTSIZE .. (vma.end - 1) \div PTSIZE

\* The page tables of the range that have no valid entry are freed; so is a
\* directory, if it had an entry for every table of the range when it was looked
\* at.  Whatever else it pointed to is then out of reach.
exit_range(mem, p, vma) ==
  LET mine  == mem.mm[p]
      there == {t \in TablesOf(vma) \cap DOMAIN mine.pde0 : DirOf(t) \in DOMAIN mine.pde1}
      freed == {t \in there : \A la \in DOMAIN mine.pte : mine.pte[la].v => la \div PTSIZE # t}
      gone  == {d \in DOMAIN mine.pde1 :
                  /\ \E t \in TablesOf(vma) : DirOf(t) = d
                  /\ \A t \in TablesOf(vma) : DirOf(t) = d => t \in DOMAIN mine.pde0}
      below == {t \in DOMAIN mine.pde0 : DirOf(t) \in gone}
      pages == {mine.pde0[t] : t \in freed} \cup {mine.pde1[d] : d \in gone}
  IN  [free_pages(mem, pages) EXCEPT !.mm[p].pde0 = Without(@, freed \cup below),
                                     !.mm[p].pde1 = Without(@, gone)]

\* The page tables are not looked at.
M_release_mm(mem, p) ==
  IF mem.mm[p] = NoMm THEN mem
  ELSE [free_page(unmap(mem, p), mem.mm[p].pgdir) EXCEPT !.mm[p] = NoMm]

\* exit_mmap, put_pgdir and mm_destroy.
release_mm(mem, p) ==
  LET vmas == mem.mm[p].vmas
      exited[i \in 0 .. Len(vmas)] ==
        IF i = 0 THEN unmap(mem, p) ELSE exit_range(exited[i - 1], p, vmas[i])
  IN  IF mem.mm[p] = NoMm THEN mem
      ELSE [free_page(exited[Len(vmas)], mem.mm[p].pgdir) EXCEPT !.mm[p] = NoMm]

new_mm(mem, p) ==
  [alloc_page(mem) EXCEPT !.mm[p] = NewMm(NextPage(mem))]

\* The page of the child is mapped and not written.
M_copy_page(mem, p, c, la) ==
  LET m1 == get_pte(mem, c, la)
  IN  IF ~IsValid(mem, p, la) THEN mem
      ELSE page_insert(alloc_page(m1), c, NextPage(m1), la)

\* copy_range for a page: a valid one is copied to c.
copy_page(mem, p, c, la) ==
  LET m1  == get_pte(mem, c, la)
      x   == NextPage(m1)
      old == mem.mm[p].pte[la].at
  IN  IF ~IsValid(mem, p, la) THEN mem
      ELSE page_insert([alloc_page(m1) EXCEPT !.content[x] = m1.content[old]], c, x, la)

copy_range(mem, p, c, vma) ==
  LET copied[i \in 0 .. vma.end - vma.start] ==
        IF i = 0 THEN mem ELSE copy_page(copied[i - 1], p, c, vma.start + i - 1)
  IN  copied[vma.end - vma.start]

\* dup_mmap goes through the regions from the last to the first.
dup_mmap(mem, p, c) ==
  LET vmas == mem.mm[p].vmas
      duped[i \in 0 .. Len(vmas)] ==
        IF i = 0 THEN mem ELSE copy_range(duped[i - 1], p, c, vmas[Len(vmas) + 1 - i])
  IN  [duped[Len(vmas)] EXCEPT !.mm[c].vmas = vmas]

copy_mm(mem, p, c) ==
  IF mem.mm[p] = NoMm THEN mem
  ELSE LET done == dup_mmap(new_mm(mem, c), p, c)
       IN  [done EXCEPT !.cr3[c] = done.mm[c].pgdir]

-----------------------------------------------------------------------------
(***************************************************************************)
(* load_icode.  A program is its segments in the order of the file: the    *)
(* pages start .. end-1, what they hold (image), whether they are writable *)
(* (w) and whether the header is wrong (bad).                              *)
(***************************************************************************)
IsGood(prog) == prog.magic /\ \A i \in DOMAIN prog.segs : ~Refused(prog, i)

Vma(seg) == [start |-> seg.start, end |-> seg.end, w |-> seg.w]

\* mmap_list is sorted by address, as the segments of a linked program are.
mm_map(mem, p, vma) == [mem EXCEPT !.mm[p].vmas = Append(@, vma)]

load_segment(mem, p, seg) ==
  LET filled[i \in 0 .. seg.end - seg.start] ==
        IF i = 0 THEN mm_map(mem, p, Vma(seg))
        ELSE pgdir_alloc_page(filled[i - 1], p, seg.start + i - 1, seg.image[seg.start + i - 1])
  IN  filled[seg.end - seg.start]

\* As far as the segments are good.
GoodSegs(prog) ==
  LET bad == {i \in DOMAIN prog.segs : Refused(prog, i)}
  IN  IF ~prog.magic THEN 0 ELSE IF bad = {} THEN Len(prog.segs) ELSE Least(bad) - 1

load_segments(mem, p, prog) ==
  LET loaded[i \in 0 .. GoodSegs(prog)] ==
        IF i = 0 THEN mem ELSE load_segment(loaded[i - 1], p, prog.segs[i])
  IN  loaded[GoodSegs(prog)]

StackVma == [start |-> StackFrom, end |-> StackTo, w |-> TRUE]

fill_stack(mem, p, old) ==
  LET filled[i \in 0 .. LoadStack] ==
        IF i = 0 THEN mm_map(mem, p, StackVma)
        ELSE pgdir_alloc_page(filled[i - 1], p, StackTo - i, old[StackTo - i])
  IN  filled[LoadStack]

\* cr3 is not set to the new directory.
M_load_stack(mem, p, old) == fill_stack(mem, p, old)

\* The stack, from the top, with what was left in the pages it gets.
load_stack(mem, p, old) ==
  LET done == fill_stack(mem, p, old)
  IN  [done EXCEPT !.cr3[p] = done.mm[p].pgdir]

-----------------------------------------------------------------------------
\* Where setup_kstack finds two pages next to each other.
KstackPlaces(mem) == {x \in mem.free : x + 1 \in mem.free}
Kstack(x) == {x, x + 1}

\* The pages of p's address space.
Tables(mem, p) == {mem.mm[p].pde1[d] : d \in DOMAIN mem.mm[p].pde1} \cup
                  {mem.mm[p].pde0[t] : t \in DOMAIN mem.mm[p].pde0}
ValidOf(mem, p) == {la \in DOMAIN mem.mm[p].pte : mem.mm[p].pte[la].v}
Owned(mem, p) ==
  ({mem.mm[p].pgdir} \ {Boot, None}) \cup Tables(mem, p) \cup
  {mem.mm[p].pte[la].at : la \in ValidOf(mem, p)}

\* What loading a program takes: the page directory, tables and pages.
Takes(prog) ==
  LET pages == PagesOf(prog.segs) \cup Loaded
  IN  1 + Cardinality({la \div PDSIZE : la \in pages})
        + Cardinality({la \div PTSIZE : la \in pages}) + Cardinality(pages)

Running(p) == ~m.check /\ p \in Users /\ state[p] = "live"

\* do_fork without files and scheduling.  init makes one kernel thread, which
\* has no memory of its own until it calls do_execve.
setup_kstack(c) ==
  LET x == Least(KstackPlaces(m))
  IN  [m EXCEPT !.free = @ \ Kstack(x), !.kstack[c] = x, !.cr3[c] = Boot]

kernel_thread(c) ==
  /\ ~m.check
  /\ calls = 0 /\ calls' = 1
  /\ KstackPlaces(m) # {}
  /\ m' = setup_kstack(c)
  /\ state' = [state EXCEPT ![c] = "live"]

do_fork(p, c) ==
  /\ Running(p) /\ calls < MaxCalls /\ calls' = calls + 1
  /\ state[c] = "none"
  /\ KstackPlaces(m) # {}
  /\ Cardinality(m.free) - 2 >= Cardinality(Owned(m, p))
  /\ m' = copy_mm(setup_kstack(c), p, c)
  /\ state' = [state EXCEPT ![c] = "live"]

\* do_execve once the file is open: the old memory goes first, so that a file
\* that turns out to be no program ends the process.
do_execve(p, prog) ==
  LET bare  == release_mm(m, p)
      loads == load_segments(new_mm(bare, p), p, prog)
  IN
  /\ Running(p) /\ calls < MaxCalls /\ calls' = calls + 1
  /\ Cardinality(bare.free) >= Takes(prog)
  /\ \/ /\ IsGood(prog)
        /\ \E old \in [Loaded -> Values] : m' = load_stack(loads, p, old)
        /\ UNCHANGED state
     \/ /\ ~IsGood(prog)
        /\ m' = release_mm(loads, p)
        /\ state' = [state EXCEPT ![p] = "zombie"]

\* Also the end of a do_execve that cannot open the file.
do_exit(p) ==
  /\ Running(p)
  /\ m' = release_mm(m, p)
  /\ state' = [state EXCEPT ![p] = "zombie"]
  /\ UNCHANGED calls

\* A parent reaps c.
do_wait(c) ==
  /\ ~m.check
  /\ state[c] = "zombie"
  /\ m' = [free_pages(m, Kstack(m.kstack[c])) EXCEPT !.kstack[c] = None, !.cr3[c] = Boot]
  /\ state' = [state EXCEPT ![c] = "none"]
  /\ UNCHANGED calls

-----------------------------------------------------------------------------
\* An access by a user process, or by check_swap to its own pages.
HasMm(p) == m.mm[p] # NoMm /\ (p = Check \/ Running(p))
InRegion(p, la) ==
  \E i \in DOMAIN m.mm[p].vmas : LET vma == m.mm[p].vmas[i]
                                 IN  vma.w /\ vma.start <= la /\ la < vma.end

\* The page does not exist yet.
pgfault_new(p, la) ==
  /\ HasMm(p) /\ InRegion(p, la)
  /\ la \notin DOMAIN m.mm[p].pte
  /\ m.check \/ Cardinality(m.free) >= 3
  /\ \E old \in Values : m' = pgdir_alloc_page(get_pte(m, p, la), p, la, old)
  /\ UNCHANGED <<state, calls>>

\* The page is brought in again but not queued.
M_pgfault_swap(p, la) ==
  LET x  == NextPage(m)
      m1 == alloc_page(m)
      m2 == [m1 EXCEPT !.content[x] = m1.swap[m.mm[p].pte[la].at]]
  IN
  /\ HasMm(p) /\ InRegion(p, la)
  /\ la \in DOMAIN m.mm[p].pte /\ ~m.mm[p].pte[la].v
  /\ m' = page_insert(m2, p, x, la)
  /\ UNCHANGED <<state, calls>>

\* The page is on the swap device: swap_in, which may have to swap out another
\* one first.
pgfault_swap(p, la) ==
  LET x  == NextPage(m)
      m1 == alloc_page(m)
      m2 == [m1 EXCEPT !.content[x] = m1.swap[m.mm[p].pte[la].at]]
  IN
  /\ HasMm(p) /\ InRegion(p, la)
  /\ la \in DOMAIN m.mm[p].pte /\ ~m.mm[p].pte[la].v
  /\ m' = swap_map_swappable(page_insert(m2, p, x, la), x, la)
  /\ UNCHANGED <<state, calls>>

write(p, la, c) ==
  /\ HasMm(p) /\ InRegion(p, la)
  /\ IsValid(m, p, la)
  /\ m' = [m EXCEPT !.content[m.mm[p].pte[la].at] = c]
  /\ UNCHANGED <<state, calls>>

\* The end of check_swap, when every frame it used is mapped: the frames and
\* tables join the rest of the memory.
check_swap_ends ==
  /\ m.check
  /\ m.free = {}
  /\ m' = [free_pages(m, Pages) EXCEPT !.mm[Check] = NoMm, !.check = FALSE,
                                      !.pra = <<>>, !.swap = Empty]
  /\ UNCHANGED <<state, calls>>

VmNext ==
  \/ check_swap_ends
  \/ \E p \in Users :
       \/ kernel_thread(p) \/ do_exit(p) \/ do_wait(p)
       \/ \E c \in Users \ {p} : do_fork(p, c)
       \/ \E prog \in Programs : do_execve(p, prog)
  \/ \E p \in Procs, la \in Vas :
       \/ pgfault_new(p, la) \/ pgfault_swap(p, la)
       \/ \E c \in Values : write(p, la, c)

VmSpec == Init /\ [][VmNext]_vmvars

-----------------------------------------------------------------------------
Stored == IF m.check THEN CheckRp + 2 .. NP - 1 ELSE {}
KstackOf(p) == IF m.kstack[p] = None THEN {} ELSE Kstack(m.kstack[p])

\* Every page of the memory is free or used once: as one of the two pages of a
\* kernel stack, as a page directory, as a table, or by one valid entry of one
\* process.  No path of fork, exec, a failed exec, exit and wait loses a page
\* or frees one that is still in use, and the reference counts are right.
PagesAccounted ==
  LET users   == UNION {Owned(m, p) : p \in Procs}
      stacks  == UNION {KstackOf(p) : p \in Users}
      spaces  == {p \in Procs : m.mm[p] # NoMm}
      uses(p) == (IF m.mm[p].pgdir = Boot THEN 0 ELSE 1) + Cardinality(ValidOf(m, p))
                 + Cardinality(DOMAIN m.mm[p].pde1) + Cardinality(DOMAIN m.mm[p].pde0)
  IN
  /\ m.free \cup Stored \cup users \cup stacks = Pages
  /\ m.free \cap (Stored \cup users \cup stacks) = {}
  /\ Stored \cap (users \cup stacks) = {} /\ users \cap stacks = {}
  /\ \A p, q \in Procs : p # q => Owned(m, p) \cap Owned(m, q) = {}
  /\ \A p, q \in Users : p # q => KstackOf(p) \cap KstackOf(q) = {}
  /\ \A p \in spaces : Cardinality(Owned(m, p)) = uses(p)
  /\ \A x \in Pages :
       m.ref[x] = IF \E p \in spaces : x \in Owned(m, p) \ {m.mm[p].pgdir} THEN 1 ELSE 0

\* A process that can run runs on its own page directory, whose tables are all
\* there: every entry can be reached, and what it maps lies in a region.
AddressSpacesSound ==
  /\ \A p \in Users : state[p] = "live" =>
       m.cr3[p] = IF m.mm[p] = NoMm THEN Boot ELSE m.mm[p].pgdir
  /\ \A p \in Procs : m.mm[p] # NoMm =>
       /\ \A la \in DOMAIN m.mm[p].pte :
            /\ la \div PTSIZE \in DOMAIN m.mm[p].pde0
            /\ \E i \in DOMAIN m.mm[p].vmas :
                 m.mm[p].vmas[i].start <= la /\ la < m.mm[p].vmas[i].end
       /\ \A t \in DOMAIN m.mm[p].pde0 : (t * PTSIZE) \div PDSIZE \in DOMAIN m.mm[p].pde1

\* The queue of swap_fifo.c holds exactly the resident pages, each once and
\* with its own address, so that the assertion of swap_out that its victim is
\* mapped never fails.
ResidentQueue ==
  m.check =>
    /\ Len(m.pra) = Cardinality(ValidOf(m, Check))
    /\ \A la \in ValidOf(m, Check) :
         \E i \in DOMAIN m.pra :
           m.pra[i] = [page |-> m.mm[Check].pte[la].at, vaddr |-> la]

\* To the processes all this is UserMemory: a fork copies, nobody changes the
\* memory of another, exec replaces it all by what the file holds, and a page
\* comes back from the swap device as it was.
Seen(mem, p) ==
  [la \in DOMAIN mem.mm[p].pte |->
     LET e == mem.mm[p].pte[la] IN IF e.v THEN mem.content[e.at] ELSE mem.swap[e.at]]

ImageOf(prog) ==
  LET seg(la) == CHOOSE i \in DOMAIN prog.segs :
                   prog.segs[i].start <= la /\ la < prog.segs[i].end
  IN  [la \in PagesOf(prog.segs) |-> prog.segs[seg(la)].image[la]]

Abstract == INSTANCE UserMemory WITH
  mem <- [p \in Procs |-> Seen(m, p)],
  Images <- {ImageOf(prog) : prog \in {q \in Programs : IsGood(q)}},
  Stack <- Loaded,
  Growth <- Vas
UserMemorySpec == Abstract!Spec
=============================================================================
