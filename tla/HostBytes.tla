------------------------------ MODULE HostBytes ------------------------------
(* What the host sends: the encodings of its client                          *)
(* (tests/app_client/transaction.py) and of the tests, which the parsers     *)
(* have to read back.                                                        *)
EXTENDS Parsers

\* The levels of a path, four bytes each.
BytesOf(levels) == FlattenSeq(levels)

\* The change info of the new protocol, a list of entries, and of the old one.
EncodeEntry(c) == <<c.index>> \o (<<Len(c.path)>> \o BytesOf(c.path))
EncodeEntries(cs) == FlattenSeq([k \in DOMAIN cs |-> EncodeEntry(cs[k])])
EncodeNew(cs) == <<1>> \o (<<Len(cs)>> \o EncodeEntries(cs))
EncodeOld(c) == <<128 + Len(c.path)>> \o (<<c.index>> \o BytesOf(c.path))

\* An amount below 2^31 has four bytes, another one eight, negated, as
\* doc/TRANSACTION.md:49 says; the client tests bit 31 only, and cannot encode the
\* larger amounts in which it is clear.
EncodeValue(n) == IF (\A i \in 1..4 : n[i] = 0) /\ n[5] < 128 THEN SubSeq(n, 5, 8) ELSE Negated(n)

Script(hash) == P2pkhHead \o hash \o P2pkhTail
EncodeOutput(o) == EncodeValue(o.value) \o (<<o.token_data>> \o (o.len \o o.script))

EncodeToken(t) == <<t.version>> \o (t.uid \o (<<Len(t.symbol)>> \o (t.symbol \o
                    (<<Len(t.name)>> \o t.name))))

===============================================================================
