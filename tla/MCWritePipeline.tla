---- MODULE MCWritePipeline ----
(* The write pipeline of one phone on a small instance.                    *)
EXTENDS WritePipeline

MCWrites == 1 .. 6
====
