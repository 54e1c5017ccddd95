---------------------------- MODULE MCTermExchange ----------------------------
(* Integer types of two to five bits, in the order of the real ones.          *)
EXTENDS TermExchange

MCSize ==
    [u8 |-> 4, i8 |-> 4, u16 |-> 8, i16 |-> 8, u32 |-> 16, i32 |-> 16, u64 |-> 32, i64 |-> 32,
     core |-> 8]

===============================================================================
