--------------------------- MODULE MCSsrOutbound ---------------------------
EXTENDS SsrOutbound

X(i) == Unit("data", i, 0)
MCMessages == <<<<X(1), X(2), X(3)>>, <<X(4)>>>>
MCAnswers == <<<<X(11), X(12)>>, <<X(13)>>>>
=============================================================================
