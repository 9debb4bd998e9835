---------------------------- MODULE MCRetrieval ----------------------------
(* Small instances of Retrieval for TLC. *)
EXTENDS Retrieval

\* A file with three chunks, whose locator begins with local:// as in the benchmarks,
\* and a message with one.  The message's source is older and has brought the bytes of
\* the file's third version too: that version has the message's locator.
Corpus == [file |-> <<<<{"a"}, {}, {"b"}>>, <<{"a", "b"}, {}, {}>>, <<{"b"}>>>>,
           mail |-> <<<<>>, <<{"a"}>>>>]
AtFirst == [file |-> 0, mail |-> 1]
VersionLocators == [file |-> <<"file", "file", "mail">>, mail |-> <<"mail", "mail">>]
LocalFirst == [file |-> 0, mail |-> 3]
MailFirst == [file |-> 1, mail |-> 2]

\* The third place in one search is not enough.
Threshold == Unit \div 62

\* Questions that ask for a fact, of a term that no chunk has and of three terms, and
\* one that does not, which the keyword search cannot answer.
Asked ==
  {[terms |-> t, lexemes |-> {"a"}, strict |-> TRUE, connector |-> FALSE,
    strategy |-> y, synthesise |-> y # "multi_source"] :
      t \in {{"c"}, {"a", "b", "c"}}, y \in Strategies}
  \cup
  {[terms |-> {"b"}, lexemes |-> {}, strict |-> FALSE, connector |-> y = "default",
    strategy |-> y, synthesise |-> y = "default"] : y \in Strategies}
=============================================================================
