--------------------------- MODULE MCSettingsStore ---------------------------
\* Instances of SettingsStore for TLC: a URL, which python-dotenv may read back
\* cut short ("pound" holds what it takes for a comment), the number cache_ttl, set in
\* the .env that asgi.py finds, and a password that the environment presets.
EXTENDS SettingsStore

CONSTANTS w1, w2, base_url, cache_ttl, password, old, new, word, pound, short

AllSettings == {base_url, cache_ttl, password}
MCDefaults == [f \in Fields |-> old]
MCDeployments == {[stateDir |-> "environment", writable |-> FALSE],
                  [stateDir |-> "unset", writable |-> TRUE],
                  [stateDir |-> "unset", writable |-> FALSE]}
NoPreset == [f \in Fields |-> Unset]
MCPreset == [NoPreset EXCEPT ![password] = old]
MCFirstFile == [NoPreset EXCEPT ![cache_ttl] = new]
MCParsed == [v \in Values |-> IF v = pound THEN short ELSE v]

Save(f, v) == [x \in {f} |-> v]
Both(v, n) == [f \in {base_url, cache_ttl} |-> IF f = cache_ttl THEN n ELSE v]
MCPayloads == {Save(base_url, new), Save(cache_ttl, new), Save(password, new),
               Both(pound, old), Both(new, word)}
=============================================================================
