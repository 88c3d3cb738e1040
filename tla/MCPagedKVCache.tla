---- MODULE MCPagedKVCache ----
EXTENDS PagedKVCache
====
