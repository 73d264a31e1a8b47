---- MODULE MCPingTiming ----
EXTENDS PingTiming
====
