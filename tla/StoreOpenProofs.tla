--------------------------- MODULE StoreOpenProofs ---------------------------
(***************************************************************************)
(* Opening the database, for any list of indexes and migrations, any file  *)
(* of an earlier release and any number of failed starts.                  *)
(*                                                                         *)
(* What a start has done so far is what makes the schema complete at its   *)
(* end: the indexes before its statement are there, and so are the columns *)
(* before it, because a column that was not added was there when _migrate  *)
(* looked, and no statement takes a column away.                           *)
(***************************************************************************)
EXTENDS StoreOpen, TLAPS

Progress ==
  /\ columns # {} => CoreColumns \subseteq columns
  /\ step \in {"indexes", "migrate", "serving"} => CoreColumns \subseteq columns
  /\ step = "indexes" => \A i \in DOMAIN Indexes : i < at => Indexes[i].name \in indexes
  /\ step = "migrate" => /\ IndexNames \subseteq indexes
                         /\ \A i \in DOMAIN Migrations : i < at => Migrations[i] \in columns

IInv == TypeOK /\ Progress /\ ServesCompleteSchema

LEMMA Statements ==
  /\ Len(Indexes) \in Nat /\ DOMAIN Indexes = 1 .. Len(Indexes)
  /\ Len(Migrations) \in Nat /\ DOMAIN Migrations = 1 .. Len(Migrations)
  /\ \A i \in DOMAIN Indexes : Indexes[i].name \in IndexNames
  /\ \A i \in DOMAIN Migrations : Migrations[i] \in Complete
  /\ CoreColumns \subseteq Complete
<1>1. \A i \in DOMAIN Migrations : Migrations[i] \in Complete
  BY DEF Complete, Added
<1>2. \A i \in DOMAIN Indexes : Indexes[i].name \in IndexNames
  BY DEF IndexNames
<1> QED
  BY <1>1, <1>2, StatementAssumption DEF Complete

LEMMA InitProgress == Init => IInv
<1> SUFFICES ASSUME Init PROVE IInv
  OBVIOUS
<1>1. PICK d \in Databases : columns = d.columns /\ indexes = d.indexes
  BY DEF Init
<1>2. /\ step = "down" /\ at = 0 /\ existing = {} /\ failures = 0
  BY DEF Init
<1> QED
  BY <1>1, <1>2, DatabaseAssumption, StatementAssumption
  DEF IInv, TypeOK, Progress, ServesCompleteSchema

LEMMA NextProgress == IInv /\ [Next]_vars => IInv'
<1> SUFFICES ASSUME IInv, [Next]_vars PROVE IInv'
  OBVIOUS
<1> USE Statements, StatementAssumption DEF IInv
<1>1. CASE Start
  BY <1>1 DEF Start, TypeOK, Progress, ServesCompleteSchema
<1>2. CASE CreateTable
  <2>1. CoreColumns \subseteq columns' /\ columns \subseteq columns' /\ columns' \subseteq Complete
    BY <1>2 DEF CreateTable, TypeOK, Progress
  <2> QED
    BY <1>2, <2>1 DEF CreateTable, TypeOK, Progress, ServesCompleteSchema
<1>3. CASE CreateIndex
  <2>1. /\ step = "indexes" /\ step' = "indexes" /\ at \in 1 .. Len(Indexes) /\ at' = at + 1
        /\ indexes' = indexes \union {Indexes[at].name}
    BY <1>3 DEF CreateIndex
  <2>2. \A i \in DOMAIN Indexes : i < at' => Indexes[i].name \in indexes'
    BY <2>1 DEF Progress
  <2>3. TypeOK'
    BY <1>3, <2>1 DEF CreateIndex, TypeOK
  <2> QED
    BY <1>3, <2>1, <2>2, <2>3 DEF CreateIndex, Progress, ServesCompleteSchema
<1>4. CASE IndexRaises
  BY <1>4 DEF IndexRaises, TypeOK, Progress, ServesCompleteSchema
<1>5. CASE Inspect
  <2>1. step = "indexes" /\ at = Len(Indexes) + 1 /\ step' = "migrate" /\ at' = 1
    BY <1>5 DEF Inspect
  <2>2. IndexNames \subseteq indexes'
    BY <1>5, <2>1 DEF Inspect, Progress, IndexNames
  <2>3. \A i \in DOMAIN Migrations : ~(i < at')
    BY <2>1
  <2>4. TypeOK'
    BY <1>5, <2>1 DEF Inspect, TypeOK
  <2> QED
    BY <1>5, <2>1, <2>2, <2>3, <2>4 DEF Inspect, Progress, ServesCompleteSchema
<1>6. CASE Migrate
  <2>1. /\ step = "migrate" /\ step' = "migrate" /\ at \in 1 .. Len(Migrations) /\ at' = at + 1
        /\ columns' = columns \union ({Migrations[at]} \ existing)
    BY <1>6 DEF Migrate
  <2>2. columns \subseteq columns' /\ Migrations[at] \in columns' /\ columns' \subseteq Complete
    BY <2>1 DEF TypeOK
  <2>3. \A i \in DOMAIN Migrations : i < at' => Migrations[i] \in columns'
    BY <2>1, <2>2 DEF Progress
  <2>4. TypeOK'
    BY <1>6, <2>1, <2>2 DEF Migrate, TypeOK
  <2> QED
    BY <1>6, <2>1, <2>2, <2>3, <2>4 DEF Migrate, Progress, ServesCompleteSchema
<1>7. CASE Serve
  <2>1. /\ step = "migrate" /\ at = Len(Migrations) + 1
        /\ step' = "serving" /\ at' = 0 /\ columns' = columns /\ indexes' = indexes
    BY <1>7 DEF Serve
  <2>2. Added \subseteq columns /\ CoreColumns \subseteq columns
    BY <2>1 DEF Added, Progress
  <2>3. ServesCompleteSchema'
    BY <2>1, <2>2 DEF Progress, TypeOK, Complete, ServesCompleteSchema
  <2>4. TypeOK' /\ Progress'
    BY <1>7, <2>1 DEF Serve, TypeOK, Progress
  <2> QED
    BY <2>3, <2>4
<1>8. CASE Crash
  BY <1>8 DEF Crash, TypeOK, Progress, ServesCompleteSchema
<1>9. CASE UNCHANGED vars
  BY <1>9 DEF vars, TypeOK, Progress, ServesCompleteSchema
<1> QED
  BY <1>1, <1>2, <1>3, <1>4, <1>5, <1>6, <1>7, <1>8, <1>9 DEF Next, Proceed

LEMMA ProgressHolds == Spec => []IInv
<1> QED
  BY InitProgress, NextProgress, PTL DEF Spec

\* A start is always at one of its statements, and the schema at one of its stages.
THEOREM StoreTyping == Spec => []TypeOK
<1>1. IInv => TypeOK
  BY DEF IInv
<1> QED
  BY <1>1, ProgressHolds, PTL

\* However often earlier starts were cut off, a start that gets to its end leaves
\* the whole schema behind.
THEOREM WhatIsServedIsComplete == Spec => []ServesCompleteSchema
<1>1. IInv => ServesCompleteSchema
  BY DEF IInv
<1> QED
  BY <1>1, ProgressHolds, PTL
==============================================================================
