----------------------------- MODULE FileNames ------------------------------
(* The names of a database's files (leveldb-library/db/filename.cc) and the *)
(* decimal numbers in them (util/logging.cc).  A digit is a character of    *)
(* its own; MANIFEST, the suffixes and the names without a number are one   *)
(* each.                                                                    *)
EXTENDS Naturals, SequencesExt

CONSTANTS MaxNumber,  \* kMaxUint64
          MinDigits,  \* the 6 of "%06llu"
          Digits,     \* that are put together to names
          MaxDigits,  \* how many of them
          Others      \* other characters

VARIABLES name,    \* of a file in the directory
          number,  \* what ParseFileName says, or the number it was made from
          type,    \* likewise
          made     \* it was made by one of the functions of filename.cc

vars == <<name, number, type, made>>

\* Characters above the digits.
MANIFEST == 10
DotLog == 11
DotLdb == 12
DotSst == 13
DotTemp == 14
CURRENT == 15
LOCK == 16
LOG == 17
OldLOG == 18
Numbered == {DotLog, DotLdb, DotSst, DotTemp}
Single == {CURRENT, LOCK, LOG, OldLOG}
TypeOf(word) ==
  CASE word = CURRENT -> "current" [] word = LOCK -> "lock" [] word \in {LOG, OldLOG} -> "info"
    [] word = DotLog -> "log" [] word \in {DotLdb, DotSst} -> "table" [] word = DotTemp -> "temp"
----------------------------------------------------------------------------
\* What snprintf makes of a number: at least MinDigits digits.
Decimal(n) ==
  LET length == CHOOSE l \in MinDigits..(MinDigits + n) :
                  n < 10 ^ l /\ (l > MinDigits => n >= 10 ^ (l - 1))
  IN  [i \in 1..length |-> (n \div 10 ^ (length - i)) % 10]
MakeFileName(n, suffix) == Append(Decimal(n), suffix)
DescriptorFileName(n) == <<MANIFEST>> \o Decimal(n)

IsDigit(c) == c \in 0..9
Overflows(value, digit) ==
  value > MaxNumber \div 10 \/ (value = MaxNumber \div 10 /\ digit > MaxNumber % 10)

\* The digits at the front of the name, up to the first other character.
ConsumeDecimalNumber(in) ==
  LET others == {i \in DOMAIN in : ~IsDigit(in[i])}
      length == IF others = {} THEN Len(in) ELSE (CHOOSE i \in others : \A j \in others : i <= j) - 1
      Take(st, digit) == IF ~st.ok \/ Overflows(st.value, digit) THEN [st EXCEPT !.ok = FALSE]
                         ELSE [st EXCEPT !.value = @ * 10 + digit]
      end == FoldLeft(Take, [ok |-> TRUE, value |-> 0], SubSeq(in, 1, length))
  IN  [ok |-> end.ok /\ length # 0, value |-> end.value, rest |-> SubSeq(in, length + 1, Len(in))]

Parsed(t, n) == [type |-> t, number |-> n]
NotParsed == Parsed("none", 0)
ParseFileName(in) ==
  LET manifest == in # <<>> /\ in[1] = MANIFEST
      it == ConsumeDecimalNumber(IF manifest THEN Tail(in) ELSE in)
  IN  IF in \in {<<w>> : w \in Single} THEN Parsed(TypeOf(in[1]), 0)
      ELSE IF ~it.ok THEN NotParsed
      ELSE IF manifest THEN IF it.rest = <<>> THEN Parsed("descriptor", it.value) ELSE NotParsed
      ELSE IF it.rest \in {<<s>> : s \in Numbered} THEN Parsed(TypeOf(it.rest[1]), it.value)
      ELSE NotParsed
----------------------------------------------------------------------------
Init == name = <<>> /\ number = 0 /\ type = "none" /\ made = FALSE

\* A file of the database gets its name.
Make ==
  /\ name = <<>>
  /\ number' \in 1..MaxNumber
  /\ \/ /\ type' = "descriptor"
        /\ name' = DescriptorFileName(number')
     \/ \E suffix \in Numbered : /\ type' = TypeOf(suffix)
                                 /\ name' = MakeFileName(number', suffix)
  /\ made' = TRUE

\* A name is found in the directory.
Find ==
  /\ name = <<>>
  /\ \E digits \in SeqOf(Digits, MaxDigits), word \in Numbered \cup Single \cup {MANIFEST} \cup Others :
       /\ name' \in {<<word>> \o digits, digits \o <<word>>, digits}
       /\ name' # <<>>
  /\ type' = ParseFileName(name').type
  /\ number' = ParseFileName(name').number
  /\ UNCHANGED made
Next == Make \/ Find
----------------------------------------------------------------------------
\* A name that was made is parsed to what it was made from, so no two files of
\* a kind share one, up to the greatest number.
NamesAreParsed == made => ParseFileName(name) = Parsed(type, number)

\* A number that was read is the one written there and can be one, and only
\* names of one of the forms are taken for files of the database.
ValueOf(digits) == FoldLeft(LAMBDA value, d : value * 10 + d, 0, digits)
ReadNumbersAreRight ==
  ~made =>
    LET digits == SelectSeq(name, IsDigit)
        form == \/ name \in {<<w>> : w \in Single}
                \/ digits # <<>> /\ ValueOf(digits) <= MaxNumber
                     /\ \/ name = <<MANIFEST>> \o digits
                        \/ \E s \in Numbered : name = digits \o <<s>>
    IN  /\ type # "none" <=> form
        /\ form => number = ValueOf(digits)
=============================================================================
