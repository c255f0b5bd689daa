---------------------------- MODULE ApertureRange ---------------------------
(***************************************************************************)
(* How an access to guest memory becomes a range to map: with_mapping,     *)
(* shard and ram_size_to_max_gpa of crates/virtio-hdv/src/mem.rs, with the *)
(* widths of the integers involved.                                        *)
(***************************************************************************)
EXTENDS Naturals

CONSTANTS
  PAGE,            \* 4096
  HIGH_RAM_BASE,   \* 4 GiB
  SHARDS,
  U64,             \* 2^64
  U32,             \* 2^32
  Ram,             \* RAM sizes a host may be opened with
  Length           \* lengths of the accesses

ASSUME RangeAssumption ==
  /\ PAGE \in Nat \ {0} /\ SHARDS \in Nat \ {0}
  /\ HIGH_RAM_BASE \in Nat /\ U64 \in Nat \ {0} /\ U32 \in Nat \ {0}
  /\ HIGH_RAM_BASE % PAGE = 0 /\ U64 % PAGE = 0 /\ HIGH_RAM_BASE < U64
  /\ Ram \subseteq 0 .. U64 - 1 /\ Length \subseteq Nat

VARIABLES
  ram,       \* the RAM size given to into_guest_memory
  access     \* the access under way: address, length, the range mapped

rangeVars == <<ram, access>>

-----------------------------------------------------------------------------
Least(a, b) == IF a <= b THEN a ELSE b

(* A slip: the flat RAM size.                                              *)
FlatRam(r) == r

(* saturating_add *)
ram_size_to_max_gpa(r) == Least(HIGH_RAM_BASE + r, U64 - 1)

(* checked_add, and the end within max_address *)
InRange(addr, len, max) == addr + len < U64 /\ addr + len <= max

Base(addr) == (addr \div PAGE) * PAGE

(* A slip: round the length instead of the end.                            *)
PagesOfLength(addr, len) == ((len + PAGE - 1) \div PAGE) * PAGE

Pages(addr, len) ==
  ((addr + len - Base(addr) + PAGE - 1) \div PAGE) * PAGE

Span(addr, len, max) == Least(Pages(addr, len), max - Base(addr))

shard(addr) == (Base(addr) \div PAGE) % SHARDS

(* create_aperture takes the length as a u32.                              *)
MappedLen(addr, len, max) == Span(addr, len, max) % U32

-----------------------------------------------------------------------------
max_address == ram_size_to_max_gpa(ram)

NoAccess == [addr |-> 0, len |-> 0, base |-> 0, mapped |-> 0, shard |-> 0]

RangeTypeOK ==
  /\ ram \in Ram
  /\ access \in [addr : 0 .. U64 - 1, len : Length \cup {0},
                 base : 0 .. U64 - 1, mapped : 0 .. U32 - 1,
                 shard : 0 .. SHARDS - 1]

RangeInit == ram \in Ram /\ access = NoAccess

(* read_fallback or write_fallback reaches the copy.                       *)
Access(addr, len) ==
  /\ access = NoAccess
  /\ InRange(addr, len, max_address)
  /\ access' = [addr |-> addr, len |-> len, base |-> Base(addr),
                mapped |-> MappedLen(addr, len, max_address),
                shard |-> shard(addr)]
  /\ UNCHANGED ram

(* The access is over, or was refused as BadRange.                         *)
NotMapped ==
  /\ access' = NoAccess
  /\ UNCHANGED ram

RangeNext ==
  \/ \E addr \in 0 .. U64 - 1, len \in Length : Access(addr, len)
  \/ NotMapped

RangeSpec == RangeInit /\ [][RangeNext]_rangeVars

-----------------------------------------------------------------------------
(* "addr..end lies within [base, base+span) mapped by ap" (with_mapping):  *)
(* the range handed to HDV covers the access and stays within the address  *)
(* ceiling, for any access whose span fits the u32 create_aperture takes.  *)
AccessCovered ==
  LET end == access.base + access.mapped
  IN  Pages(access.addr, access.len) < U32 =>
        /\ access.base <= access.addr
        /\ access.addr + access.len <= end
        /\ end <= max_address

(* However Hyper-V splits the RAM around the hole below 4 GiB, the ceiling *)
(* admits all of it: "this admits all real RAM for any split".             *)
RamAdmitted ==
  \A low \in 0 .. Least(ram, HIGH_RAM_BASE) :
    LET top == IF low = ram THEN low ELSE HIGH_RAM_BASE + (ram - low)
    IN  top < U64 => top <= max_address
=============================================================================
