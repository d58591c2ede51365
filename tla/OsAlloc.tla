------------------------------ MODULE OsAlloc ------------------------------
(***************************************************************************)
(* The allocator of builds with WPA_TRACE, in                              *)
(* src/wifi/wpa_socket/os_unix.c, and the functions of os.h above it.      *)
(* Each block has a header with a magic number and its length, and is      *)
(* linked into alloc_list, so that leaks and a second free are found out.  *)
(*                                                                         *)
(* A byte is a number, ANY one that nobody has written.  A caller has one  *)
(* pointer, which it may keep and use after it has freed the block; holds  *)
(* are the callers that the block at their pointer really belongs to.      *)
(*                                                                         *)
(* External: malloc, which fails at will (as testing_fail_alloc does, see  *)
(* OsFail) and hands out any free address, and what callers store.         *)
(***************************************************************************)
EXTENDS Integers, Sequences, SequencesExt, FiniteSets, FiniteSetsExt

CONSTANTS
  Addr, NULL,       \* addresses of blocks, and the null pointer
  Callers,          \* a set of numbers
  SIZE_MAX, HDR,    \* the largest size_t; sizeof(struct os_alloc_trace)
  Sizes, Numbers,   \* sizes asked for; counts and element sizes of arrays
  MaxCalls          \* bound on the calls

VARIABLES
  heap,             \* [mem, alloc_list, at]; at is "run", "abort" or "corrupt"
  p,                \* the pointer of each caller
  total,            \* what os_program_deinit has reported, or -1
  holds, want,      \* history: who holds a block, and what it must contain
  last, asked,      \* history: the last caller and its call, and the size
  calls             \* history: the number of calls

vars == <<heap, p, total, holds, want, last, asked, calls>>

NUL == 0
ANY == -1
Bytes(n, b) == [k \in 1 .. n |-> b]

NoBlock == [magic |-> "FREED", len |-> 0, data |-> << >>]

Init ==
  /\ heap = [mem |-> [a \in Addr |-> NoBlock], alloc_list |-> << >>, at |-> "run"]
  /\ p = [c \in Callers |-> NULL] /\ total = -1
  /\ holds = {} /\ want = [c \in Callers |-> << >>]
  /\ last = [c |-> NULL, op |-> "none"] /\ asked = 0 /\ calls = 0

-----------------------------------------------------------------------------
(***************************************************************************)
(* os_unix.c.  An allocation yields the pairs [h, ptr] that it may return. *)
(***************************************************************************)
Abort(h) == [h EXCEPT !.at = "abort"]

(* The header is added modulo SIZE_MAX + 1: if that wraps, there is no room *)
(* even for the header, which is written all the same.                      *)
os_malloc(h, size) ==
  {[h |-> h, ptr |-> NULL]} \cup
  IF HDR + size > SIZE_MAX
  THEN {[h |-> [h EXCEPT !.at = "corrupt"], ptr |-> NULL]}
  ELSE {[h |-> [h EXCEPT
                  !.mem[a] = [magic |-> "ALLOC", len |-> size,
                              data |-> Bytes(size, ANY)],
                  !.alloc_list = <<a>> \o @],
         ptr |-> a] : a \in {b \in Addr : h.mem[b].magic # "ALLOC"}}

(* os_memcpy and os_memset at the beginning of a block.                     *)
Write(h, ptr, s) ==
  [h EXCEPT !.mem[ptr].data = s \o SubSeq(@, Len(s) + 1, Len(@))]
Written(r, s) == IF r.ptr = NULL THEN r ELSE [r EXCEPT !.h = Write(@, r.ptr, s)]

(* Mutant: the magic number is left.                                        *)
os_free_Magic(h, ptr) ==
  CASE ptr = NULL -> h
    [] ptr # NULL /\ h.mem[ptr].magic # "ALLOC" -> Abort(h)
    [] OTHER -> [h EXCEPT !.alloc_list = Remove(@, ptr)]

(* free may overwrite the magic number of a freed block in turn; what       *)
(* matters is that it is not ALLOC_MAGIC.                                   *)
os_free(h, ptr) ==
  CASE ptr = NULL -> h
    [] ptr # NULL /\ h.mem[ptr].magic # "ALLOC" -> Abort(h)
    [] OTHER -> [h EXCEPT !.alloc_list = Remove(@, ptr),
                          !.mem[ptr].magic = "FREED"]

os_realloc(h, ptr, size) ==
  CASE ptr = NULL -> os_malloc(h, size)
    [] ptr # NULL /\ h.mem[ptr].magic # "ALLOC" -> {[h |-> Abort(h), ptr |-> NULL]}
    [] OTHER ->
         LET copy_len == Min({h.mem[ptr].len, size})
             Move(r) == [Written(r, SubSeq(h.mem[ptr].data, 1, copy_len))
                           EXCEPT !.h = os_free(@, ptr)]
         IN {IF r.ptr = NULL THEN r ELSE Move(r) : r \in os_malloc(h, size)}

os_zalloc(h, size) == {Written(r, Bytes(size, 0)) : r \in os_malloc(h, size)}

strlen(s) == Min({k \in DOMAIN s : s[k] = NUL}) - 1

os_strdup(h, s) ==
  {Written(r, SubSeq(s, 1, strlen(s)) \o <<NUL>>) :
     r \in os_malloc(h, strlen(s) + 1)}

(* Without a source, nothing is copied.                                     *)
os_memdup(h, src, len) ==
  {IF src = NULL THEN r ELSE Written(r, SubSeq(h.mem[src].data, 1, len)) :
     r \in os_malloc(h, len)}

(* os_program_deinit adds up what is in the list.                           *)
Leaked(h) == FoldLeft(LAMBDA s, a : s + h.mem[a].len, 0, h.alloc_list)

-----------------------------------------------------------------------------
(***************************************************************************)
(* os.h.                                                                   *)
(***************************************************************************)
TooMany(nmemb, size) == size # 0 /\ nmemb > SIZE_MAX \div size

Product(nmemb, size) == (nmemb * size) % (SIZE_MAX + 1)

os_calloc(h, nmemb, size) ==
  IF TooMany(nmemb, size) THEN {[h |-> h, ptr |-> NULL]}
  ELSE os_zalloc(h, Product(nmemb, size))

os_realloc_array(h, ptr, nmemb, size) ==
  IF TooMany(nmemb, size) THEN {[h |-> h, ptr |-> NULL]}
  ELSE os_realloc(h, ptr, Product(nmemb, size))

(* memmove of what is behind the element; the end of the array is left.     *)
os_remove_in_array(s, nmemb, size, idx) ==
  IF idx < nmemb - 1
  THEN SubSeq(s, 1, idx * size)
       \o SubSeq(s, (idx + 1) * size + 1, nmemb * size)
       \o SubSeq(s, (nmemb - 1) * size + 1, Len(s))
  ELSE s

-----------------------------------------------------------------------------
(***************************************************************************)
(* The callers (external).  w is what the caller may rely on afterwards.   *)
(***************************************************************************)
Calls(c, op, size) ==
  /\ heap.at = "run" /\ total = -1
  /\ calls < MaxCalls /\ calls' = calls + 1 /\ asked' = size
  /\ last' = [c |-> c, op |-> op]
  /\ UNCHANGED total

(* p = os_malloc(...) and the like, of a caller that has no pointer.        *)
New(c, rs, w) ==
  /\ p[c] = NULL
  /\ \E r \in rs :
       /\ heap' = r.h /\ p' = [p EXCEPT ![c] = r.ptr]
       /\ IF r.ptr = NULL THEN UNCHANGED <<holds, want>>
          ELSE holds' = holds \cup {c} /\ want' = [want EXCEPT ![c] = w]

Malloc(c) ==
  \E n \in Sizes : Calls(c, "new", n) /\ New(c, os_malloc(heap, n), Bytes(n, ANY))
Zalloc(c) ==
  \E n \in Sizes : Calls(c, "new", n) /\ New(c, os_zalloc(heap, n), Bytes(n, 0))
Calloc(c) ==
  \E n, s \in Numbers :
    Calls(c, "new", n * s) /\ New(c, os_calloc(heap, n, s), Bytes(n * s, 0))

Strdup(c) ==
  \E d \in holds :
    /\ \E k \in DOMAIN want[d] : want[d][k] = NUL
    /\ LET s == heap.mem[p[d]].data
           w == SubSeq(want[d], 1, strlen(want[d]) + 1)
       IN Calls(c, "new", Len(w)) /\ New(c, os_strdup(heap, s), w)

Memdup(c) ==
  \E d \in holds : \E n \in 0 .. Len(want[d]), src \in {NULL, p[d]} :
    /\ Calls(c, "new", n)
    /\ New(c, os_memdup(heap, src, n),
           IF src = NULL THEN Bytes(n, ANY) ELSE SubSeq(want[d], 1, n))

(* Whose block is at the pointer of c?                                      *)
At(c) == {d \in holds : p[d] = p[c]}

Free(c) ==
  /\ p[c] # NULL /\ Calls(c, "free", 0) /\ heap' = os_free(heap, p[c])
  /\ p' \in {p, [p EXCEPT ![c] = NULL]}
  /\ holds' = holds \ At(c) /\ UNCHANGED want

(* n = os_realloc(p, ...); if (n) p = n;                                    *)
Resize(c, rs, size) ==
  \E r \in rs :
    /\ heap' = r.h
    /\ IF r.ptr = NULL THEN UNCHANGED <<p, holds, want>>
       ELSE /\ p' = [p EXCEPT ![c] = r.ptr]
            /\ holds' = (holds \ (IF p[c] = NULL THEN {} ELSE At(c))) \cup {c}
            /\ want' = [want EXCEPT ![c] =
                 IF c \in holds
                 THEN [k \in 1 .. size |-> IF k <= Len(@) THEN @[k] ELSE ANY]
                 ELSE Bytes(size, ANY)]

Realloc(c) ==
  \E n \in Sizes : Calls(c, "resize", n) /\ Resize(c, os_realloc(heap, p[c], n), n)
ReallocArray(c) ==
  \E n, s \in Numbers :
    Calls(c, "resize", n * s) /\ Resize(c, os_realloc_array(heap, p[c], n, s), n * s)

(* The caller stores a string of its own that fills the block.              *)
Store(c) ==
  /\ c \in holds /\ want[c] # << >> /\ Calls(c, "store", asked)
  /\ LET n == Len(want[c])
         s == [k \in 1 .. n |-> IF k = n THEN NUL ELSE 10 * c + k]
     IN heap' = Write(heap, p[c], s) /\ want' = [want EXCEPT ![c] = s]
  /\ UNCHANGED <<p, holds>>

(* An element that is there is removed; what is left behind the array is    *)
(* not relied on.                                                           *)
RemoveInArray(c) ==
  /\ c \in holds
  /\ \E s \in Numbers \ {0} : \E idx \in 0 .. Len(want[c]) \div s - 1 :
       LET n == Len(want[c]) \div s
           kept == SubSeq(want[c], 1, idx * s)
                   \o SubSeq(want[c], (idx + 1) * s + 1, n * s)
       IN /\ heap' = [heap EXCEPT !.mem[p[c]].data = os_remove_in_array(@, n, s, idx)]
          /\ want' = [want EXCEPT ![c] = kept \o Bytes(Len(@) - Len(kept), ANY)]
  /\ Calls(c, "store", asked) /\ UNCHANGED <<p, holds>>

os_program_deinit ==
  /\ heap.at = "run" /\ total = -1 /\ total' = Leaked(heap)
  /\ UNCHANGED <<heap, p, holds, want, last, asked, calls>>

Next ==
  \/ \E c \in Callers :
       \/ Malloc(c) \/ Zalloc(c) \/ Calloc(c) \/ Strdup(c) \/ Memdup(c)
       \/ Free(c) \/ Realloc(c) \/ ReallocArray(c) \/ Store(c) \/ RemoveInArray(c)
  \/ os_program_deinit

Spec == Init /\ [][Next]_vars

-----------------------------------------------------------------------------
(***************************************************************************)
(* Properties.                                                             *)
(***************************************************************************)
(* alloc_list has the blocks with ALLOC_MAGIC, each of them once, and these *)
(* are the blocks that somebody holds: nothing leaks within the allocator,  *)
(* and no block belongs to two callers.                                     *)
ListIsLive ==
  LET live == {a \in Addr : heap.mem[a].magic = "ALLOC"}
  IN /\ {heap.alloc_list[k] : k \in DOMAIN heap.alloc_list} = live
     /\ Len(heap.alloc_list) = Cardinality(live)
     /\ heap.at = "run" => /\ {p[c] : c \in holds} = live
                           /\ Cardinality(holds) = Cardinality(live)

(* A block holds what its caller stored, zeroed or copied, whatever moved,  *)
(* was resized in vain or was removed in front of it, and whatever the      *)
(* others do with blocks of their own.                                      *)
Contents ==
  \A c \in holds :
    LET data == heap.mem[p[c]].data
    IN /\ Len(data) >= Len(want[c])
       /\ \A k \in DOMAIN want[c] : want[c][k] \in {ANY, data[k]}

(* A freed pointer that is freed or resized again stops the program there   *)
(* and then, unless its address has been handed out again meanwhile; and    *)
(* nothing else stops it.                                                   *)
StaleCaught ==
  calls' > calls /\ asked' <= SIZE_MAX =>
    ((heap'.at = "abort") <=> /\ last'.op \in {"free", "resize"}
                              /\ p[last'.c] # NULL /\ At(last'.c) = {})

(* An array has room for all its elements: a product that is too large is   *)
(* refused.  Only a size that leaves no room for the header of the block    *)
(* corrupts the heap.                                                       *)
ArrayRoom ==
  /\ heap.at = "corrupt" => asked > SIZE_MAX - HDR
  /\ heap.at = "run" => \A c \in holds : heap.mem[p[c]].len >= Len(want[c])

(* The leaks that are reported at the end are the bytes that are held.      *)
LeakTotal == total # -1 => total = MapThenSumSet(LAMBDA c : Len(want[c]), holds)

=============================================================================
