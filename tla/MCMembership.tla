---------------------------- MODULE MCMembership ----------------------------
(***************************************************************************)
(* Membership for TLC.                                                     *)
(***************************************************************************)
EXTENDS Membership

LoadOfPort == [n \in Nodes |-> IF n \in Thieves THEN 0 ELSE MaxLoad]

(* Messages of each type: the least and the greatest numbers, strings that *)
(* are empty and not, and lists of no element, one and two.                *)
u16 == Base ^ 2 - 1
u32 == Base ^ 4 - 1
u64 == Base ^ 8 - 1

InfoA == <<1, <<1, 2>>, 5, 4, <<>>, 0>>
InfoB == <<u32, <<>>, u16, 0, <<0>>, u64>>
TaskA == <<u64, 0, 1, 2, 3, 4, <<3, 0, 3>>>>
TaskB == <<0, u64, u32, 0, u32, u16, <<>>>>

WireSamples ==
  {[type |-> "Register", vals |-> v] : v \in {<<<<1, 2>>, u16, 4, <<3>>>>, <<<<>>, 0, u32, <<>>>>}} \cup
  {[type |-> "RegisterAck", vals |-> v] : v \in {<<1>>, <<u32>>}} \cup
  {[type |-> "Heartbeat", vals |-> v] : v \in {<<1, u64, 0>>, <<2, 0, 77>>}} \cup
  {[type |-> "NodeList", vals |-> v] : v \in {<<0>>, <<1>> \o InfoB, <<2>> \o InfoA \o InfoB}} \cup
  {[type |-> "StealRequest", vals |-> v] : v \in {<<1, 16, 4>>, <<u32, 0, u16>>}} \cup
  {[type |-> "StealResponse", vals |-> v] : v \in {<<0, u64>>, <<1>> \o TaskA \o <<3>>, <<2>> \o TaskB \o TaskA \o <<0>>}} \cup
  {[type |-> "TaskResult", vals |-> v] : v \in {<<7, 0>>, <<u64, 1>>}}
=============================================================================
