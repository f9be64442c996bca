------------------------------ MODULE CliFlags ------------------------------
(* The flags of the commands: utils/cliutils/commandsflags.go.             *)
(*                                                                         *)
(* flagsMap describes every flag once, under a key of its own; the name    *)
(* the user types may differ from the key, so that commands can have       *)
(* different flags of the same name. commandFlags lists the keys of the    *)
(* flags of each command. Keys are the values of the Go constants.         *)
EXTENDS FiniteSets, TLC

Rows(kind, keys) == [k \in keys |-> [name |-> k, kind |-> kind]]
Named(name, kind, keys) == [k \in keys |-> [name |-> name, kind |-> kind]]
Renamed(kind, pairs) ==
  [k \in {p[1] : p \in pairs} |->
    [name |-> (CHOOSE p \in pairs : p[1] = k)[2], kind |-> kind]]
For(cmds, keys) == [c \in cmds |-> keys]

flagsMap1 ==
     Rows("string", {"username", "user", "password", "access-token",
       "server-id", "alpine-version", "arch"})
  @@ Rows("bool", {"password-stdin", "access-token-stdin"})
  @@ Named("format", "string", {"config-show-format",
       "access-token-create-format", "exchange-oidc-token-format",
       "license-acquire-format", "license-deploy-format", "jpd-add-format",
       "plugin-install-format", "plugin-publish-format", "pl-status-format",
       "pl-trigger-format", "pl-sync-format", "pl-sync-status-format",
       "permission-target-create-format", "permission-target-update-format",
       "transfer-config-format", "transfer-config-merge-format",
       "transfer-files-format", "users-create-format"})
  @@ Named("server-id", "string", {"server-id-yarn", "server-id-npm"})
  @@ Renamed("string", {<<"platform-url", "url">>, <<"apk-branch", "branch">>,
       <<"api-input", "input">>, <<"api-data", "data">>,
       <<"api-method", "method">>})
  @@ Renamed("slice", {<<"api-header", "header">>})
  @@ Renamed("bool", {<<"api-verbose", "verbose">>})
  @@ Renamed("int", {<<"api-timeout", "timeout">>})

flagsMap2 ==
     Rows("string", {"mcp-url", "url", "ssh-key-path", "ssh-passphrase",
       "client-cert-path", "client-cert-key-path", "sort-by", "sort-order",
       "limit", "offset", "spec", "spec-vars", "build-name", "build-number",
       "module", "exclusions", "build", "exclude-artifacts", "include-deps",
       "threads", "retries"})
  @@ Rows("bool", {"include-dirs", "fail-no-op"})
  @@ Named("format", "string", {"api-docs-search-format",
       "api-docs-describe-format", "mcp-show-format"})
  @@ Renamed("string", {<<"api-docs-search-tag", "tag">>,
       <<"api-docs-search-method", "method">>, <<"mcp-agent", "agent">>,
       <<"mcp-project-dir", "project-dir">>, <<"mcp-name", "name">>,
       <<"upload-exclusions", "exclusions">>})
  @@ Renamed("int", {<<"api-docs-search-limit", "limit">>})
  @@ Renamed("bool", {<<"mcp-global", "global">>, <<"mcp-dry-run", "dry-run">>,
       <<"mcp-skip-check", "skip-check">>})

flagsMap3 ==
     Rows("string", {"retry-wait-time", "bundle", "gpg-key", "archive-entries",
       "deb", "chunk-size"})
  @@ Rows("bool", {"insecure-tls", "detailed-summary", "legacy", "overwrite",
       "basic-auth-only", "dry-run", "symlinks", "skip-checksum",
       "bypass-archive-inspection", "validate-symlinks"})
  @@ Rows("boolT", {"interactive", "enc-password"})
  @@ Named("flat", "bool", {"upload-flat", "download-flat"})
  @@ Named("explode", "bool", {"upload-explode", "download-explode"})
  @@ Renamed("bool", {<<"bpOverwrite", "overwrite">>,
       <<"upload-regexp", "regexp">>, <<"upload-ant", "ant">>,
       <<"sync-deletes-quiet", "quiet">>})
  @@ Named("recursive", "boolT", {"upload-recursive", "download-recursive"})
  @@ Named("min-split", "string", {"upload-min-split", "download-min-split"})
  @@ Named("split-count", "string", {"upload-split-count",
       "download-split-count"})
  @@ Renamed("string", {<<"upload-target-props", "target-props">>,
       <<"upload-sync-deletes", "sync-deletes">>,
       <<"upload-archive", "archive">>, <<"download-props", "props">>})

flagsMap4 ==
     Rows("bool", {"count"})
  @@ Rows("string", {"include", "build-url", "project", "env-include",
       "env-exclude", "config", "status"})
  @@ Rows("boolT", {"fail"})
  @@ Named("exclude-props", "string", {"download-exclude-props",
       "move-exclude-props", "copy-exclude-props", "delete-exclude-props",
       "search-exclude-props", "props-exclude-props"})
  @@ Named("props", "string", {"move-props", "copy-props", "delete-props",
       "search-props", "props-props"})
  @@ Renamed("string", {<<"download-sync-deletes", "sync-deletes">>,
       <<"bad-module", "module">>})
  @@ Named("recursive", "boolT", {"move-recursive", "copy-recursive",
       "delete-recursive", "search-recursive", "props-recursive",
       "bad-recursive"})
  @@ Named("flat", "bool", {"move-flat", "copy-flat"})
  @@ Named("dry-run", "bool", {"bp-dry-run", "bad-dry-run"})
  @@ Renamed("bool", {<<"delete-quiet", "quiet">>,
       <<"search-transitive", "transitive">>,
       <<"bp-detailed-summary", "detailed-summary">>,
       <<"bad-regexp", "regexp">>, <<"bad-from-rt", "from-rt">>})

flagsMap5 ==
     Rows("string", {"comment", "source-repo", "target-docker-image",
       "source-tag", "target-tag", "max-days", "max-builds", "exclude-builds",
       "refs", "server-id-resolve", "server-id-deploy",
       "repo-resolve-releases", "repo-resolve-snapshots",
       "repo-deploy-releases", "repo-deploy-snapshots", "include-patterns",
       "exclude-patterns", "snapshots-update-policy", "repo-resolve",
       "repo-deploy", "ivy-desc-pattern"})
  @@ Rows("bool", {"include-dependencies", "copy", "delete-artifacts",
       "global", "disable-snapshots", "uses-plugin"})
  @@ Rows("boolT", {"fail-fast", "deploy-maven-desc", "deploy-ivy-desc"})
  @@ Named("dry-run", "bool", {"bpr-dry-run", "glc-dry-run"})
  @@ Renamed("bool", {<<"docker-promote-copy", "copy">>,
       <<"bdi-async", "async">>, <<"glc-quiet", "quiet">>})
  @@ Renamed("string", {<<"bpr-props", "props">>, <<"glc-repo", "repo">>})

flagsMap6 ==
     Rows("string", {"ivy-artifacts-pattern", "dist", "component", "namespace",
       "provider", "tag", "vars", "users-groups", "source-working-dir",
       "target-working-dir"})
  @@ Rows("bool", {"skip-login", "trusted", "import-key", "remove", "nuget-v2",
       "allow-insecure-connections", "replace", "admin", "force", "verbose",
       "sign"})
  @@ Rows("boolT", {"no-fallback"})
  @@ Named("csv", "string", {"users-create-csv", "users-delete-csv"})
  @@ Renamed("string", {<<"deployment-threads", "threads">>,
       <<"rt-atc-groups", "groups">>, <<"rt-atc-expiry", "expiry">>,
       <<"rt-atc-audience", "audience">>, <<"oc-start-build-repo", "repo">>,
       <<"dist-url", "url">>})
  @@ Named("detailed-summary", "bool", {"npm-detailed-summary",
       "rbv1-detailed-summary"})
  @@ Renamed("bool", {<<"rt-atc-grant-admin", "grant-admin">>,
       <<"rt-atc-refreshable", "refreshable">>, <<"rbv1-dry-run", "dry-run">>})

flagsMap7 ==
     Rows("string", {"desc", "release-notes-path", "release-notes-syntax",
       "dist-rules", "site", "city", "country-codes", "max-wait-minutes",
       "target-props", "scan", "license-id", "from", "to", "version", "target",
       "dep-type", "requirements-file", "min-severity", "watches",
       "working-dirs", "repo-path"})
  @@ Rows("bool", {"sync", "delete-from-dist", "periodic", "exclude-test-deps",
       "fixable-only", "extended-table", "use-wrapper", "licenses", "vuln"})
  @@ Renamed("string", {<<"rbv1-passphrase", "passphrase">>,
       <<"rbv1-target", "target">>, <<"rbv1-repo", "repo">>,
       <<"xr-url", "url">>, <<"audit-exclusions", "exclusions">>})
  @@ Renamed("boolT", {<<"audit-use-wrapper", "use-wrapper">>})

flagsMap8 ==
     Rows("bool", {"bypass-archive-limits", "mvn", "gradle", "npm", "yarn",
       "nuget", "pip", "pipenv", "poetry", "go", "rescan", "install"})
  @@ Rows("string", {"license-count", "image-file", "artifactory-url",
       "distribution-url", "xray-url", "mission-control-url", "pipelines-url",
       "path"})
  @@ Renamed("boolT", {<<"scan-recursive", "recursive">>,
       <<"mc-interactive", "interactive">>})
  @@ Renamed("bool", {<<"scan-regexp", "regexp">>, <<"scan-ant", "ant">>,
       <<"config-disable-token-refresh", "disable-token-refresh">>})
  @@ Named("format", "string", {"xr-format", "curation-format"})
  @@ Named("url", "string", {"mc-url", "config-url"})
  @@ Named("access-token", "string", {"mc-access-token", "config-access-token"})
  @@ Renamed("string", {<<"go-publishexclusions", "exclusions">>,
       <<"curation-threads", "threads">>, <<"config-user", "user">>,
       <<"config-password", "password">>,
       <<"config-insecure-tls", "insecure-tls">>})

flagsMap9 ==
     Rows("bool", {"create-repo", "filestore", "ignore-state", "monitor",
       "single-branch", "stop", "prechecks", "third-party-contextual-analysis"})
  @@ Rows("string", {"include-repos", "exclude-repos", "include-projects",
       "exclude-projects", "include-files", "created-after",
       "downloaded-after", "proxy-key", "branch", "pipeline-name",
       "repository", "dir", "home-dir", "repo", "promotion-type",
       "oidc-token-id", "oidc-provider-name"})
  @@ Renamed("bool", {<<"transfer-files-status", "status">>,
       <<"atc-grant-admin", "grant-admin">>,
       <<"atc-refreshable", "refreshable">>, <<"atc-reference", "reference">>})
  @@ Renamed("string", {<<"install-version", "version">>,
       <<"atc-project", "project">>, <<"atc-groups", "groups">>,
       <<"atc-scope", "scope">>, <<"atc-expiry", "expiry">>,
       <<"atc-description", "description">>, <<"atc-audience", "audience">>})

flagsMap10 ==
     Rows("string", {"oidc-audience", "oidc-provider-type", "application-key",
       "revision", "repo-type", "repo-key"})
  @@ Rows("bool", {"run-native", "workspaces", "validate-sha"})
  @@ Rows("int", {"hf-hub-etag-timeout", "hf-hub-download-timeout"})

flagsMap == flagsMap1 @@ flagsMap2 @@ flagsMap3 @@ flagsMap4 @@ flagsMap5 @@
            flagsMap6 @@ flagsMap7 @@ flagsMap8 @@ flagsMap9 @@ flagsMap10

(* Keys that the lists below often have together. *)
Server == {"url", "user", "password", "access-token", "ssh-passphrase",
           "ssh-key-path", "server-id"}
Cert == {"client-cert-path", "client-cert-key-path"}
Platform == {"platform-url", "user", "password", "access-token",
             "ssh-passphrase", "ssh-key-path", "server-id"}
Build == {"build-name", "build-number", "module", "project"}
Spec == {"spec", "spec-vars"}
Retry == {"retries", "retry-wait-time"}
Listing == {"sort-by", "sort-order", "limit", "offset"}
OfBuild == {"build", "include-deps", "exclude-artifacts"}
Resolver == {"global", "server-id-resolve", "repo-resolve"}
Deployer == {"server-id-deploy", "repo-deploy"}
HfModel == {"revision", "repo-type", "hf-hub-etag-timeout", "repo-key",
            "hf-hub-download-timeout"}
AptRepo == {"repo", "dist", "component", "trusted"}
McServer == {"mc-url", "mc-access-token"}

commandFlags1 ==
     "config-add" :> (Cert \cup {"interactive", "enc-password", "config-url",
         "artifactory-url", "distribution-url", "xray-url",
         "mission-control-url", "pipelines-url", "config-user",
         "config-password", "config-access-token", "ssh-key-path",
         "ssh-passphrase", "basic-auth-only", "config-insecure-tls",
         "overwrite", "password-stdin", "access-token-stdin", "oidc-token-id",
         "oidc-provider-name", "oidc-audience", "oidc-provider-type",
         "application-key", "config-disable-token-refresh", "legacy"})
  @@ "config-edit" :> (Cert \cup {"interactive", "enc-password", "config-url",
         "artifactory-url", "distribution-url", "xray-url",
         "mission-control-url", "pipelines-url", "config-user",
         "config-password", "config-access-token", "ssh-key-path",
         "ssh-passphrase", "basic-auth-only", "config-insecure-tls",
         "password-stdin", "access-token-stdin",
         "config-disable-token-refresh", "legacy"})
  @@ "delete-config" :> ({"delete-quiet"})
  @@ "config-show" :> ({"config-show-format"})
  @@ "upload" :> (Server \cup Cert \cup Build \cup Spec \cup Retry \cup
         {"upload-target-props", "upload-exclusions", "deb",
         "upload-recursive", "upload-flat", "upload-regexp", "dry-run",
         "upload-explode", "symlinks", "include-dirs", "fail-no-op", "threads",
         "upload-sync-deletes", "sync-deletes-quiet", "insecure-tls",
         "detailed-summary", "upload-ant", "upload-archive",
         "upload-min-split", "upload-split-count", "chunk-size"})
  @@ "download" :> (Server \cup Cert \cup Build \cup Spec \cup Retry \cup
         Listing \cup OfBuild \cup {"exclusions", "download-recursive",
         "download-flat", "download-min-split", "download-split-count",
         "dry-run", "download-explode", "bypass-archive-inspection",
         "validate-symlinks", "bundle", "gpg-key", "include-dirs",
         "download-props", "download-exclude-props", "fail-no-op", "threads",
         "archive-entries", "download-sync-deletes", "sync-deletes-quiet",
         "insecure-tls", "detailed-summary", "skip-checksum"})
  @@ "move" :> (Server \cup Cert \cup Spec \cup Retry \cup Listing \cup OfBuild
         \cup {"exclusions", "move-recursive", "move-flat", "dry-run",
         "move-props", "move-exclude-props", "fail-no-op", "threads",
         "archive-entries", "insecure-tls", "project"})
  @@ "copy" :> (Server \cup Cert \cup Spec \cup Retry \cup Listing \cup OfBuild
         \cup {"exclusions", "copy-recursive", "copy-flat", "dry-run",
         "bundle", "copy-props", "copy-exclude-props", "fail-no-op", "threads",
         "archive-entries", "insecure-tls", "project"})
  @@ "delete" :> (Server \cup Cert \cup Spec \cup Retry \cup Listing \cup
         OfBuild \cup {"exclusions", "delete-recursive", "dry-run",
         "delete-quiet", "delete-props", "delete-exclude-props", "fail-no-op",
         "threads", "archive-entries", "insecure-tls", "project"})
  @@ "search" :> (Server \cup Cert \cup Spec \cup Retry \cup Listing \cup
         OfBuild \cup {"exclusions", "search-recursive", "count", "bundle",
         "include-dirs", "search-props", "search-exclude-props", "fail-no-op",
         "archive-entries", "insecure-tls", "search-transitive", "project",
         "include"})
  @@ "properties" :> (Server \cup Cert \cup Spec \cup Retry \cup Listing \cup
         OfBuild \cup {"exclusions", "props-recursive", "bundle",
         "include-dirs", "fail-no-op", "threads", "archive-entries",
         "props-props", "props-exclude-props", "insecure-tls", "project"})
  @@ "build-publish" :> (Server \cup {"build-url", "bp-dry-run", "env-include",
         "env-exclude", "insecure-tls", "project", "bp-detailed-summary",
         "bpOverwrite"})
  @@ "build-append" :> (Server \cup {"build-url", "bp-dry-run", "env-include",
         "env-exclude", "insecure-tls", "project"})
  @@ "build-add-dependencies" :> (Spec \cup {"upload-exclusions",
         "bad-recursive", "bad-regexp", "bad-dry-run", "project",
         "bad-from-rt", "server-id", "bad-module"})
  @@ "build-add-git" :> ({"config", "server-id", "project"})
  @@ "build-collect-env" :> ({"project"})
  @@ "build-docker-create" :> (Server \cup Build \cup {"image-file"})
  @@ "oc-start-build" :> (Build \cup {"server-id", "oc-start-build-repo"})
  @@ "build-scan-legacy" :> (Server \cup {"fail", "insecure-tls", "project"})
  @@ "build-promote" :> (Server \cup {"status", "comment", "source-repo",
         "include-dependencies", "copy", "fail-fast", "bpr-dry-run",
         "bpr-props", "insecure-tls", "project"})
  @@ "build-discard" :> (Server \cup {"max-days", "max-builds",
         "exclude-builds", "delete-artifacts", "bdi-async", "insecure-tls",
         "project"})
  @@ "git-lfs-clean" :> (Server \cup Retry \cup {"refs", "glc-repo",
         "glc-dry-run", "glc-quiet", "insecure-tls"})
  @@ For({"cocoapods-config", "swift-config"}, Resolver)
  @@ "mvn-config" :> ({"global", "server-id-resolve", "server-id-deploy",
         "repo-resolve-releases", "repo-resolve-snapshots",
         "repo-deploy-releases", "repo-deploy-snapshots", "include-patterns",
         "exclude-patterns", "use-wrapper", "disable-snapshots",
         "snapshots-update-policy"})
  @@ "gradle-config" :> (Resolver \cup Deployer \cup {"uses-plugin",
         "use-wrapper", "deploy-maven-desc", "deploy-ivy-desc",
         "ivy-desc-pattern", "ivy-artifacts-pattern"})
  @@ "mvn" :> ({"build-name", "build-number", "deployment-threads",
         "insecure-tls", "project", "detailed-summary", "scan", "xr-format"})
  @@ "gradle" :> ({"build-name", "build-number", "deployment-threads",
         "project", "server-id", "detailed-summary", "scan", "xr-format"})
  @@ "docker" :> (Build \cup {"server-id", "skip-login", "threads",
         "detailed-summary", "watches", "repo-path", "licenses", "xr-format",
         "fail", "extended-table", "bypass-archive-limits", "min-severity",
         "fixable-only", "vuln", "validate-sha"})
  @@ "docker-login" :> ({"server-id", "username", "password"})
  @@ "docker-push" :> (Build \cup {"server-id", "skip-login", "threads",
         "detailed-summary", "validate-sha"})
  @@ "docker-pull" :> (Build \cup {"server-id", "skip-login"})
  @@ "docker-build" :> ({"build-name", "build-number", "server-id",
         "skip-login"})
  @@ "docker-promote" :> (Server \cup {"target-docker-image", "source-tag",
         "target-tag", "docker-promote-copy"})
  @@ "container-push" :> (Server \cup Build \cup {"skip-login", "threads",
         "detailed-summary", "validate-sha"})
  @@ "container-pull" :> (Server \cup Build \cup {"skip-login"})

commandFlags2 ==
     For({"npm-config", "go-config", "pip-config", "pipenv-config",
         "ruby-config", "conan-config"}, Resolver \cup Deployer)
  @@ "npm-install-ci" :> (Build \cup {"run-native", "server-id-npm"})
  @@ "npm-publish" :> (Build \cup {"npm-detailed-summary", "scan", "xr-format",
         "run-native", "workspaces", "server-id-npm"})
  @@ For({"pnpm-config", "yarn-config", "poetry-config"}, Resolver)
  @@ For({"pnpm", "dotnet", "twine", "pip-install", "pipenv-install", "poetry",
         "conan"}, Build)
  @@ "yarn" :> (Build \cup {"server-id-yarn"})
  @@ For({"nuget-config", "dotnet-config"}, Resolver \cup {"nuget-v2"})
  @@ "nuget" :> (Build \cup {"allow-insecure-connections"})
  @@ "go-publish" :> (Build \cup {"url", "user", "password", "access-token",
         "detailed-summary", "go-publishexclusions"})
  @@ "go" :> (Build \cup {"no-fallback"})
  @@ "terraform-config" :> (Deployer \cup {"global"})
  @@ "terraform" :> (Build \cup {"namespace", "provider", "tag", "exclusions"})
  @@ "transfer-config" :> ({"force", "verbose", "include-repos",
         "exclude-repos", "source-working-dir", "target-working-dir",
         "prechecks", "transfer-config-format"})
  @@ "transfer-config-merge" :> ({"include-repos", "exclude-repos",
         "include-projects", "exclude-projects",
         "transfer-config-merge-format"})
  @@ "ping" :> (Server \cup Cert \cup {"insecure-tls"})
  @@ "rt-curl" :> ({"server-id"})
  @@ For({"uv", "nix"}, Build \cup {"server-id"})
  @@ "helm" :> (Build \cup {"server-id", "username", "password"})
  @@ For({"hugging-face", "hugging-face-upload", "hugging-face-download"},
         Build \cup HfModel \cup {"server-id"})
  @@ "ruby" :> (Build \cup {"server-id", "repo"})
  @@ "apt" :> (AptRepo \cup {"server-id", "skip-login"})
  @@ "apt-setup" :> (AptRepo \cup {"server-id", "import-key", "remove"})
  @@ "apk" :> (Build \cup {"server-id", "repo", "alpine-version", "apk-branch",
         "arch", "user", "password"})
  @@ "stats" :> ({"xr-format", "access-token", "server-id"})
  @@ "api" :> (Cert \cup Platform \cup {"insecure-tls",
         "config-disable-token-refresh", "api-header", "api-input", "api-data",
         "api-method", "api-verbose", "api-timeout"})
  @@ "api-docs-search" :> ({"api-docs-search-tag", "api-docs-search-method",
         "api-docs-search-limit", "api-docs-search-format"})
  @@ "api-docs-describe" :> ({"api-docs-describe-format"})
  @@ "mcp-show" :> (Cert \cup Platform \cup {"insecure-tls",
         "config-disable-token-refresh", "mcp-url", "mcp-show-format"})
  @@ "mcp-install" :> (Cert \cup Platform \cup {"insecure-tls",
         "config-disable-token-refresh", "mcp-url", "mcp-agent", "mcp-global",
         "mcp-project-dir", "mcp-name", "mcp-dry-run", "mcp-skip-check"})

commandFlags3 ==
     "mcp-uninstall" :> (Cert \cup Platform \cup {"insecure-tls",
         "config-disable-token-refresh", "mcp-agent", "mcp-global",
         "mcp-project-dir", "mcp-name", "mcp-dry-run"})
  @@ "template-consumer" :> (Server \cup Cert \cup {"vars"})
  @@ For({"repo-delete", "replication-delete", "permission-target-delete"},
         Server \cup Cert \cup {"delete-quiet"})
  @@ "permission-target-create" :> (Server \cup Cert \cup {"vars",
         "permission-target-create-format"})
  @@ "permission-target-update" :> (Server \cup Cert \cup {"vars",
         "permission-target-update-format"})
  @@ "artifactory-access-token-create" :> (Server \cup Cert \cup
         {"rt-atc-groups", "rt-atc-grant-admin", "rt-atc-expiry",
         "rt-atc-refreshable", "rt-atc-audience"})
  @@ "access-token-create" :> (Cert \cup Platform \cup {"atc-project",
         "atc-grant-admin", "atc-groups", "atc-scope", "atc-expiry",
         "atc-refreshable", "atc-description", "atc-audience", "atc-reference",
         "access-token-create-format"})
  @@ "exchange-oidc-token" :> ({"url", "oidc-token-id", "oidc-audience",
         "oidc-provider-name", "oidc-provider-type", "application-key",
         "project", "repository", "exchange-oidc-token-format"})
  @@ "user-create" :> (Server \cup {"users-groups", "replace", "admin"})
  @@ "users-create" :> (Server \cup {"users-create-csv", "users-groups",
         "replace", "users-create-format"})
  @@ "users-delete" :> (Server \cup {"users-delete-csv", "delete-quiet"})
  @@ "group-create" :> (Server \cup {"replace"})
  @@ "group-add-users" :> (Server)
  @@ "group-delete" :> (Server \cup {"delete-quiet"})
  @@ "transfer-files" :> ({"filestore", "include-repos", "exclude-repos",
         "include-files", "created-after", "downloaded-after", "ignore-state",
         "proxy-key", "transfer-files-status", "stop", "prechecks",
         "transfer-files-format"})
  @@ "transfer-plugin-install" :> ({"install-version", "dir", "home-dir"})
  @@ "plugin-install" :> ({"plugin-install-format"})
  @@ "plugin-publish" :> ({"plugin-publish-format"})
  @@ "mc-config" :> (McServer \cup {"mc-interactive"})
  @@ "license-acquire" :> (McServer \cup {"license-acquire-format"})
  @@ "license-deploy" :> (McServer \cup {"license-count",
         "license-deploy-format"})
  @@ For({"license-release", "jpd-delete"}, McServer)
  @@ "jpd-add" :> (McServer \cup {"jpd-add-format"})
  @@ "project-init" :> ({"path", "server-id"})
  @@ "completion" :> ({"install"})
  @@ "intro" :> ({})
  @@ "status" :> ({"branch", "server-id", "pipeline-name", "monitor",
         "single-branch", "pl-status-format"})
  @@ "trigger" :> ({"server-id", "single-branch", "pl-trigger-format"})
  @@ "validate" :> ({"resources", "server-id"})
  @@ "version" :> ({"server-id"})
  @@ "sync" :> ({"server-id", "pl-sync-format"})
  @@ "sync-status" :> ({"branch", "repository", "server-id",
         "pl-sync-status-format"})
  @@ "setup" :> (Server \cup Cert \cup AptRepo \cup {"project", "import-key",
         "remove"})
  @@ "login" :> ({"server-id", "config-disable-token-refresh", "legacy"})

commandFlags == commandFlags1 @@ commandFlags2 @@ commandFlags3

(* buildAndSortFlags appends a nil flag for a key that flagsMap lacks, and   *)
(* its comparison then calls a method of it: such a list panics.             *)
BuildPanics(keys) == ~(keys \subseteq DOMAIN flagsMap)

(* GetCommandFlags: what a command with this key declares. A key that        *)
(* commandFlags lacks is logged, and the command declares nothing.           *)
KeysOf(cmd) == IF cmd \in DOMAIN commandFlags THEN commandFlags[cmd] ELSE {}
NamesOf(cmd) == {flagsMap[k].name : k \in KeysOf(cmd)}
KindOf(cmd, name) ==
  flagsMap[CHOOSE k \in KeysOf(cmd) : flagsMap[k].name = name].kind
BooleanFlags(cmd) ==
  {n \in NamesOf(cmd) : KindOf(cmd, n) \in {"bool", "boolT"}}
=============================================================================
