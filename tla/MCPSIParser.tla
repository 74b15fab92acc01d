------------------------------ MODULE MCPSIParser ------------------------------
EXTENDS PSIParser

\* A is a clear channel, B a scrambled one with a two-packet ECM.
MCChannels == {"A", "B"}
MCScrambled == {"B"}
MCLayout == [c \in MCChannels |->
               IF c = "A" THEN <<"pat", "pmt", "av">>
                          ELSE <<"pat", "pmt", "ecm1", "ecm2">>]
================================================================================
